---------------------------- MODULE Spec2Model ----------------------------
(***************************************************************************)
(* A state-machine model of rust-meshcore-keygen: the worker pool          *)
(* (src/src/worker.rs), the accelerator worker and its kernel              *)
(* (src/src/metal_gpu.rs), the pattern matcher (src/src/pattern.rs) and    *)
(* the collector loop of main (src/src/main.rs), and the derivation of a   *)
(* keypair from a seed on the CPU (src/src/keygen.rs) and in the kernel.   *)
(*                                                                         *)
(* Atomic loads and stores (Ordering::Relaxed) are modelled as             *)
(* interleaved steps on one shared value: every load returns the latest    *)
(* store in the interleaving.                                              *)
(***************************************************************************)
EXTENDS Integers, Sequences, FiniteSets, TLC

(***************************************************************************)
(* Program constants.                                                      *)
(***************************************************************************)
\* worker.rs:19  const BATCH_SIZE: usize = 10_000
BATCH_SIZE == 10000
\* metal_gpu.rs:23  const GPU_BATCH_SIZE: usize = 262144
GPU_BATCH_SIZE == 262144

(***************************************************************************)
(* Bounds of the model.                                                    *)
(***************************************************************************)
\* largest num_workers handed to WorkerPool::new
MaxWorkers == 2
\* how many threads the calls of start() on one pool spawn in all
MaxThreads == 3
\* how many batches (accelerator: dispatches) the workers of a run start in
\* all, counted down in fuel
MaxBatches == 2
\* how many candidates of one batch are stepped through one by one; the
\* rest of the batch is a run of candidates that do not match
MaxCand == 1
\* how many keys the result channel holds at once
MaxChan == 1
\* largest args.target_keys
MaxTarget == 1
\* --vanity and --pattern take a length in 2..=8 (main.rs:76, main.rs:84)
MinVanity == 2
MaxVanity == 8
\* how many times generate_from_seed is called on the seed
MaxCalls == 2
\* largest num_cpus::get()
MaxCores == 12
\* how many dispatches the accelerator loop commits while it is watched
MaxDispatches == 2

(***************************************************************************)
(* Bytes, slices and nibbles.  Rust indexes from 0, TLA+ sequences from 1. *)
(***************************************************************************)
\* bytes[i] of a Rust array or slice
At(bytes, i) == bytes[i + 1]

\* &bytes[from..to]
Slice(bytes, from, to) == [k \in 1..(to - from) |-> bytes[from + k]]

\* iter().rev()
Rev(s) == [k \in 1..Len(s) |-> s[Len(s) + 1 - k]]

\* b >> 4 and b & 0x0F of a u8
HiNibble(b) == b \div 16
LoNibble(b) == b % 16

(***************************************************************************)
(* pattern.rs: PatternConfig and the raw-byte matcher.                     *)
(* A prefix is the sequence of the character codes of its String.          *)
(* prefix = <<>> with has_prefix = FALSE is Option::None.                  *)
(***************************************************************************)
\* mode is "Any", "Prefix", "Vanity", "Pattern" or "PrefixVanity".
PatternConfig(mode, has_prefix, prefix, vanity_length) ==
    [mode |-> mode, has_prefix |-> has_prefix, prefix |-> prefix,
     vanity_length |-> vanity_length]

\* String::to_uppercase on an ASCII string: 'a'..'z' become 'A'..'Z'
to_uppercase(s) ==
    [k \in 1..Len(s) |-> IF s[k] >= 97 /\ s[k] <= 122 THEN s[k] - 32 ELSE s[k]]

\* a palindrome test on whole bytes
check_byte_palindrome(first, last) ==
    Len(first) = Len(last) /\ first = Rev(last)

\* pattern.rs:247-267
check_nibble_palindrome(first, last) ==
    IF Len(first) # Len(last)
    THEN FALSE
    ELSE LET first_nibbles == [k \in 1..(2 * Len(first)) |->
                                 IF k % 2 = 1 THEN HiNibble(first[(k + 1) \div 2])
                                              ELSE LoNibble(first[k \div 2])]
             last_nibbles  == [k \in 1..(2 * Len(last)) |->
                                 IF k % 2 = 1 THEN HiNibble(last[(k + 1) \div 2])
                                              ELSE LoNibble(last[k \div 2])]
         IN  first_nibbles = Rev(last_nibbles)

\* pattern.rs:236-241: the general branch slices public_bytes[..n_bytes] and
\* public_bytes[32 - n_bytes..]; both are out of range when n_bytes > 32, and
\* the slice expression panics.
vanity_slice_panics(n_hex_chars) ==
    /\ n_hex_chars \notin {2, 4, 6, 8}
    /\ (n_hex_chars + 1) \div 2 > 32

\* a matcher that knows byte equality only
check_vanity_bytes_equal(public_bytes, n_hex_chars) ==
    LET n_bytes == (n_hex_chars + 1) \div 2
    IN  Slice(public_bytes, 0, n_bytes) = Slice(public_bytes, 32 - n_bytes, 32)

\* pattern.rs:236-241: the general branch, on n_bytes = (n_hex_chars + 1) / 2
check_vanity_general(public_bytes, n_bytes) ==
    LET first == Slice(public_bytes, 0, n_bytes)
        last  == Slice(public_bytes, 32 - n_bytes, 32)
    IN  first = last \/ check_nibble_palindrome(first, last)

\* pattern.rs:199-243, for the lengths on which it returns
check_vanity_pattern_bytes(public_bytes, n_hex_chars) ==
    LET n_bytes == (n_hex_chars + 1) \div 2
    IN  CASE n_hex_chars = 2 ->
               LET first == At(public_bytes, 0)
                   last  == At(public_bytes, 31)
               IN  \/ first = last
                   \/ /\ HiNibble(first) = LoNibble(last)
                      /\ LoNibble(first) = HiNibble(last)
          [] n_hex_chars = 4 ->
               LET first == Slice(public_bytes, 0, 2)
                   last  == Slice(public_bytes, 30, 32)
               IN  first = last \/ check_nibble_palindrome(first, last)
          [] n_hex_chars = 6 ->
               LET first == Slice(public_bytes, 0, 3)
                   last  == Slice(public_bytes, 29, 32)
               IN  first = last \/ check_nibble_palindrome(first, last)
          [] n_hex_chars = 8 ->
               LET first == Slice(public_bytes, 0, 4)
                   last  == Slice(public_bytes, 28, 32)
               IN  first = last \/ check_nibble_palindrome(first, last)
          [] OTHER -> check_vanity_general(public_bytes, n_bytes)

\* a decoder that knows the decimal digits only
HexValueDecimal(p) == IF p >= 48 /\ p <= 57 THEN p - 48 ELSE -1

\* pattern.rs:289-294: the value of a hex digit, -1 for any other character
HexValue(p) ==
    IF p >= 48 /\ p <= 57 THEN p - 48
    ELSE IF p >= 65 /\ p <= 70 THEN p - 65 + 10
    ELSE IF p >= 97 /\ p <= 102 THEN p - 97 + 10
    ELSE -1

\* pattern.rs:271-302: every turn of the loop over the prefix characters
\* (275-299) passes its three tests
matches_prefix_bytes(key_bytes, prefix) ==
    LET prefix_bytes == to_uppercase(prefix)
    IN  \A i \in 0..(Len(prefix_bytes) - 1) :
            LET p == prefix_bytes[i + 1]
                byte_idx == i \div 2
                is_high_nibble == (i % 2 = 0)
            IN  /\ byte_idx < 32
                /\ HexValue(p) # -1
                /\ (IF is_high_nibble THEN HiNibble(At(key_bytes, byte_idx))
                                      ELSE LoNibble(At(key_bytes, byte_idx)))
                     = HexValue(p)

\* whether matches_pattern_bytes panics instead of returning
matches_pattern_bytes_panics(public_bytes, config) ==
    CASE config.mode \in {"Vanity", "Pattern"} ->
           vanity_slice_panics(config.vanity_length)
      [] config.mode = "PrefixVanity" ->
           /\ ~(config.has_prefix /\ ~matches_prefix_bytes(public_bytes, config.prefix))
           /\ vanity_slice_panics(config.vanity_length)
      [] OTHER -> FALSE

\* a matcher whose PrefixVanity mode passes a key on the mirror alone
matches_mirror_alone(public_bytes, config) ==
    CASE config.mode = "Any" -> TRUE
      [] config.mode = "Prefix" ->
           IF config.has_prefix
           THEN matches_prefix_bytes(public_bytes, config.prefix)
           ELSE TRUE
      [] OTHER -> check_vanity_pattern_bytes(public_bytes, config.vanity_length)

\* pattern.rs:154-176, where it returns
matches_pattern_bytes(public_bytes, config) ==
    CASE config.mode = "Any" -> TRUE
      [] config.mode = "Prefix" ->
           IF config.has_prefix
           THEN matches_prefix_bytes(public_bytes, config.prefix)
           ELSE TRUE
      [] config.mode \in {"Vanity", "Pattern"} ->
           check_vanity_pattern_bytes(public_bytes, config.vanity_length)
      [] config.mode = "PrefixVanity" ->
           IF config.has_prefix /\ ~matches_prefix_bytes(public_bytes, config.prefix)
           THEN FALSE
           ELSE check_vanity_pattern_bytes(public_bytes, config.vanity_length)

\* hex::encode (keygen.rs:62, 93): two lower-case digits a byte
hex_encode(bytes) ==
    [k \in 1..(2 * Len(bytes)) |->
        << 48, 49, 50, 51, 52, 53, 54, 55, 56, 57, 97, 98, 99, 100, 101, 102 >>
            [(IF k % 2 = 1 THEN HiNibble(bytes[(k + 1) \div 2])
                           ELSE LoNibble(bytes[k \div 2])) + 1]]

\* pattern.rs:180-195
check_vanity_pattern(hex_bytes, n) ==
    IF Len(hex_bytes) < n * 2
    THEN FALSE
    ELSE LET first_n == Slice(hex_bytes, 0, n)
             last_n  == Slice(hex_bytes, Len(hex_bytes) - n, Len(hex_bytes))
         IN  first_n = last_n \/ first_n = Rev(last_n)

\* pattern.rs:122-147; str::starts_with compares the leading characters
matches_pattern(hex, config) ==
    LET hex_upper == to_uppercase(hex)
        starts_with_prefix ==
            /\ Len(config.prefix) <= Len(hex_upper)
            /\ Slice(hex_upper, 0, Len(config.prefix)) = config.prefix
    IN  CASE config.mode = "Any" -> TRUE
          [] config.mode = "Prefix" ->
               IF config.has_prefix THEN starts_with_prefix ELSE TRUE
          [] config.mode \in {"Vanity", "Pattern"} ->
               check_vanity_pattern(hex_upper, config.vanity_length)
          [] config.mode = "PrefixVanity" ->
               IF config.has_prefix /\ ~starts_with_prefix
               THEN FALSE
               ELSE check_vanity_pattern(hex_upper, config.vanity_length)

(***************************************************************************)
(* Sample keys.  generate_meshcore_keypair (keygen.rs:33-67) draws a       *)
(* random seed, so a worker's next candidate is any key; the model draws   *)
(* it from these public keys, written as 32 bytes.                         *)
(***************************************************************************)
MkKey(first4, last4) == first4 \o [k \in 1..24 |-> 0] \o last4

SampleKeys ==
    << \* first four bytes equal the last four, first byte 0xAB
       MkKey(<<171, 205, 18, 52>>, <<171, 205, 18, 52>>),
       \* first byte 0xAB, no mirror
       MkKey(<<171, 0, 0, 0>>, <<0, 0, 0, 1>>),
       \* last four bytes are the nibble-reverse of the first four, first byte 0xFF
       MkKey(<<255, 205, 18, 52>>, <<67, 33, 220, 255>>) >>

Keys == DOMAIN SampleKeys

\* KeyInfo.public_bytes of sample key k
public_bytes(k) == SampleKeys[k]

(***************************************************************************)
(* Machine words (metal_gpu.rs:118-120).  The integers of the model stay   *)
(* below 2^31, so a 64-bit word (uint64_t, int64 of the shader) is the     *)
(* tuple of its five 13-bit limbs, least significant first, the fifth      *)
(* holding the top 12 bits.  +, - and * keep the low 64 bits.  For         *)
(* uint64_t that is the language's definition.  For int64 the shading      *)
(* language leaves overflow undefined; the low 64 bits in two's            *)
(* complement are what the GPU's 64-bit add and multiply instructions      *)
(* deliver, and the model follows that outcome.  It is one of the          *)
(* outcomes a build can produce, so what fails under it fails for the      *)
(* program; nothing is concluded for the program from what holds under it  *)
(* once an int64 operation has overflowed.  No outcome of a 64-bit         *)
(* multiply can hold the product of two 51-bit limbs.                      *)
(***************************************************************************)
Radix == 2^13

\* A local is bound as the element of a one-element set,
\*     CHOOSE it \in { e : x \in { v } } : TRUE
\* is e with x standing for the value of v, computed once; in a chain of
\* locals the first to be computed is on the last line

\* bits j .. j+n-1 of the number whose w-bit digits are L, for n <= w
Field(L, w, j, n) ==
    LET q == j \div w
        r == j % w
        lo == IF q + 1 <= Len(L) THEN L[q + 1] ELSE 0
        hi == IF q + 2 <= Len(L) THEN L[q + 2] ELSE 0
    IN  ((lo \div 2^r) + (hi % 2^r) * 2^(w - r)) % 2^n

\* the word written in hexadecimal as four 16-bit groups, highest first
U64(g3, g2, g1, g0) ==
    (CHOOSE it \in {
        << Field(L, 16, 0, 13), Field(L, 16, 13, 13), Field(L, 16, 26, 13),
           Field(L, 16, 39, 13), Field(L, 16, 52, 12) >>
      : L \in { << g0, g1, g2, g3 >> } } : TRUE)

\* a small constant as a word
Word(n) == << n % Radix, n \div Radix, 0, 0, 0 >>

\* the carry out of the n columns of the column sums s from column i on,
\* with carry c coming in
RECURSIVE CarryOut(_, _, _, _)
CarryOut(s, i, c, n) ==
    IF n = 0 THEN c ELSE (s[i + n - 1] + CarryOut(s, i, c, n - 1)) \div Radix

\* the word of the column sums s, carries propagated, modulo 2^64
Wrap64(s) ==
    (CHOOSE it \in {
        << t[1] % Radix,
           (t[2] + CarryOut(t, 1, 0, 1)) % Radix,
           (t[3] + CarryOut(t, 1, 0, 2)) % Radix,
           (t[4] + CarryOut(t, 1, 0, 3)) % Radix,
           (t[5] + CarryOut(t, 1, 0, 4)) % 2^12 >>
      : t \in { s } } : TRUE)

add64(a, b) ==
    (CHOOSE it \in {
        Wrap64(<< x[1] + y[1], x[2] + y[2], x[3] + y[3], x[4] + y[4],
                  x[5] + y[5] >>)
      : x \in { a }, y \in { b } } : TRUE)

not64(a) ==
    (CHOOSE it \in {
        << Radix - 1 - x[1], Radix - 1 - x[2], Radix - 1 - x[3],
           Radix - 1 - x[4], 2^12 - 1 - x[5] >>
      : x \in { a } } : TRUE)

sub64(a, b) == add64(add64(a, not64(b)), Word(1))

mul64(a, b) ==
    (CHOOSE it \in {
        Wrap64(<< x[1] * y[1],
                  x[1] * y[2] + x[2] * y[1],
                  x[1] * y[3] + x[2] * y[2] + x[3] * y[1],
                  x[1] * y[4] + x[2] * y[3] + x[3] * y[2] + x[4] * y[1],
                  x[1] * y[5] + x[2] * y[4] + x[3] * y[3] + x[4] * y[2]
                      + x[5] * y[1] >>)
      : x \in { a }, y \in { b } } : TRUE)

\* x >> k of a uint64_t
shr64(a, k) ==
    (CHOOSE it \in {
        << Field(x, 13, k, 13), Field(x, 13, k + 13, 13),
           Field(x, 13, k + 26, 13), Field(x, 13, k + 39, 13),
           Field(x, 13, k + 52, 12) >>
      : x \in { a } } : TRUE)

\* x >> k of an int64: the sign bit fills from the top
sar64(a, k) ==
    (CHOOSE it \in {
        LET sign == x[5] \div 2^11
            fill == sign * (Radix - 1)
        IN  shr64(<< x[1], x[2], x[3], x[4], x[5] + sign * 2^12,
                     fill, fill, fill, fill, fill >>, k)
      : x \in { a } } : TRUE)

\* x << k
shl64(a, k) ==
    mul64(a, << IF k \div 13 = 0 THEN 2^(k % 13) ELSE 0,
                IF k \div 13 = 1 THEN 2^(k % 13) ELSE 0,
                IF k \div 13 = 2 THEN 2^(k % 13) ELSE 0,
                IF k \div 13 = 3 THEN 2^(k % 13) ELSE 0,
                IF k \div 13 = 4 THEN 2^(k % 13) ELSE 0 >>)

\* the operation with truth table t on bit k of x and y
Bit(t, x, y, k) == t[2 * ((x \div 2^k) % 2) + ((y \div 2^k) % 2) + 1] * 2^k

\* a bitwise operation with truth table t on two n-bit numbers, four bits
\* at a time
RECURSIVE Bitwise(_, _, _, _)
Bitwise(t, x, y, n) ==
    IF n <= 4
    THEN (Bit(t, x, y, 0) + Bit(t, x, y, 1) + Bit(t, x, y, 2) + Bit(t, x, y, 3))
             % 2^n
    ELSE Bit(t, x, y, 0) + Bit(t, x, y, 1) + Bit(t, x, y, 2) + Bit(t, x, y, 3)
         + 16 * Bitwise(t, x \div 16, y \div 16, n - 4)

Bitwise64(t, a, b) ==
    (CHOOSE it \in {
        << Bitwise(t, x[1], y[1], 13), Bitwise(t, x[2], y[2], 13),
           Bitwise(t, x[3], y[3], 13), Bitwise(t, x[4], y[4], 13),
           Bitwise(t, x[5], y[5], 12) >>
      : x \in { a }, y \in { b } } : TRUE)

and64(a, b) == Bitwise64(<< 0, 0, 0, 1 >>, a, b)
xor64(a, b) == Bitwise64(<< 0, 1, 1, 0 >>, a, b)

\* the word of 8 bytes, highest first
WordOfBytes(s) ==
    (CHOOSE it \in {
        U64(x[1] * 256 + x[2], x[3] * 256 + x[4], x[5] * 256 + x[6],
            x[7] * 256 + x[8])
      : x \in { s } } : TRUE)

(***************************************************************************)
(* SHA-512 of the shader (metal_gpu.rs:35-111).  K is the table of round   *)
(* constants and H the initial hash value.                                 *)
(***************************************************************************)
K ==
    << U64(\h428a, \h2f98, \hd728, \hae22),
       U64(\h7137, \h4491, \h23ef, \h65cd),
       U64(\hb5c0, \hfbcf, \hec4d, \h3b2f),
       U64(\he9b5, \hdba5, \h8189, \hdbbc),
       U64(\h3956, \hc25b, \hf348, \hb538),
       U64(\h59f1, \h11f1, \hb605, \hd019),
       U64(\h923f, \h82a4, \haf19, \h4f9b),
       U64(\hab1c, \h5ed5, \hda6d, \h8118),
       U64(\hd807, \haa98, \ha303, \h0242),
       U64(\h1283, \h5b01, \h4570, \h6fbe),
       U64(\h2431, \h85be, \h4ee4, \hb28c),
       U64(\h550c, \h7dc3, \hd5ff, \hb4e2),
       U64(\h72be, \h5d74, \hf27b, \h896f),
       U64(\h80de, \hb1fe, \h3b16, \h96b1),
       U64(\h9bdc, \h06a7, \h25c7, \h1235),
       U64(\hc19b, \hf174, \hcf69, \h2694),
       U64(\he49b, \h69c1, \h9ef1, \h4ad2),
       U64(\hefbe, \h4786, \h384f, \h25e3),
       U64(\h0fc1, \h9dc6, \h8b8c, \hd5b5),
       U64(\h240c, \ha1cc, \h77ac, \h9c65),
       U64(\h2de9, \h2c6f, \h592b, \h0275),
       U64(\h4a74, \h84aa, \h6ea6, \he483),
       U64(\h5cb0, \ha9dc, \hbd41, \hfbd4),
       U64(\h76f9, \h88da, \h8311, \h53b5),
       U64(\h983e, \h5152, \hee66, \hdfab),
       U64(\ha831, \hc66d, \h2db4, \h3210),
       U64(\hb003, \h27c8, \h98fb, \h213f),
       U64(\hbf59, \h7fc7, \hbeef, \h0ee4),
       U64(\hc6e0, \h0bf3, \h3da8, \h8fc2),
       U64(\hd5a7, \h9147, \h930a, \ha725),
       U64(\h06ca, \h6351, \he003, \h826f),
       U64(\h1429, \h2967, \h0a0e, \h6e70),
       U64(\h27b7, \h0a85, \h46d2, \h2ffc),
       U64(\h2e1b, \h2138, \h5c26, \hc926),
       U64(\h4d2c, \h6dfc, \h5ac4, \h2aed),
       U64(\h5338, \h0d13, \h9d95, \hb3df),
       U64(\h650a, \h7354, \h8baf, \h63de),
       U64(\h766a, \h0abb, \h3c77, \hb2a8),
       U64(\h81c2, \hc92e, \h47ed, \haee6),
       U64(\h9272, \h2c85, \h1482, \h353b),
       U64(\ha2bf, \he8a1, \h4cf1, \h0364),
       U64(\ha81a, \h664b, \hbc42, \h3001),
       U64(\hc24b, \h8b70, \hd0f8, \h9791),
       U64(\hc76c, \h51a3, \h0654, \hbe30),
       U64(\hd192, \he819, \hd6ef, \h5218),
       U64(\hd699, \h0624, \h5565, \ha910),
       U64(\hf40e, \h3585, \h5771, \h202a),
       U64(\h106a, \ha070, \h32bb, \hd1b8),
       U64(\h19a4, \hc116, \hb8d2, \hd0c8),
       U64(\h1e37, \h6c08, \h5141, \hab53),
       U64(\h2748, \h774c, \hdf8e, \heb99),
       U64(\h34b0, \hbcb5, \he19b, \h48a8),
       U64(\h391c, \h0cb3, \hc5c9, \h5a63),
       U64(\h4ed8, \haa4a, \he341, \h8acb),
       U64(\h5b9c, \hca4f, \h7763, \he373),
       U64(\h682e, \h6ff3, \hd6b2, \hb8a3),
       U64(\h748f, \h82ee, \h5def, \hb2fc),
       U64(\h78a5, \h636f, \h4317, \h2f60),
       U64(\h84c8, \h7814, \ha1f0, \hab72),
       U64(\h8cc7, \h0208, \h1a64, \h39ec),
       U64(\h90be, \hfffa, \h2363, \h1e28),
       U64(\ha450, \h6ceb, \hde82, \hbde9),
       U64(\hbef9, \ha3f7, \hb2c6, \h7915),
       U64(\hc671, \h78f2, \he372, \h532b),
       U64(\hca27, \h3ece, \hea26, \h619c),
       U64(\hd186, \hb8c7, \h21c0, \hc207),
       U64(\heada, \h7dd6, \hcde0, \heb1e),
       U64(\hf57d, \h4f7f, \hee6e, \hd178),
       U64(\h06f0, \h67aa, \h7217, \h6fba),
       U64(\h0a63, \h7dc5, \ha2c8, \h98a6),
       U64(\h113f, \h9804, \hbef9, \h0dae),
       U64(\h1b71, \h0b35, \h131c, \h471b),
       U64(\h28db, \h77f5, \h2304, \h7d84),
       U64(\h32ca, \hab7b, \h40c7, \h2493),
       U64(\h3c9e, \hbe0a, \h15c9, \hbebc),
       U64(\h431d, \h67c4, \h9c10, \h0d4c),
       U64(\h4cc5, \hd4be, \hcb3e, \h42b6),
       U64(\h597f, \h299c, \hfc65, \h7e2a),
       U64(\h5fcb, \h6fab, \h3ad6, \hfaec),
       U64(\h6c44, \h198c, \h4a47, \h5817) >>

H ==
    << U64(\h6a09, \he667, \hf3bc, \hc908), U64(\hbb67, \hae85, \h84ca, \ha73b),
       U64(\h3c6e, \hf372, \hfe94, \hf82b), U64(\ha54f, \hf53a, \h5f1d, \h36f1),
       U64(\h510e, \h527f, \hade6, \h82d1), U64(\h9b05, \h688c, \h2b3e, \h6c1f),
       U64(\h1f83, \hd9ab, \hfb41, \hbd6b), U64(\h5be0, \hcd19, \h137e, \h2179) >>

rotr64(x, n) == (CHOOSE it \in { Bitwise64(<< 0, 1, 1, 1 >>, shr64(w, n), shl64(w, 64 - n)) : w \in { x } } : TRUE)

\* W[0..15] of sha512_32bytes: the 32 input bytes, the padding bit and the
\* length in bits
sha512_32bytes_block(input) ==
    [i \in 1..16 |->
        IF i <= 4 THEN WordOfBytes(SubSeq(input, 8 * i - 7, 8 * i))
        ELSE IF i = 5 THEN U64(\h8000, 0, 0, 0)
        ELSE IF i = 16 THEN Word(256)
        ELSE Word(0)]

\* W[i] of the message schedule, for i >= 16 (W is indexed from 1 here)
sha512_schedule(W, i) ==
    LET s0 == xor64(xor64(rotr64(W[i - 15 + 1], 1), rotr64(W[i - 15 + 1], 8)),
                    shr64(W[i - 15 + 1], 7))
        s1 == xor64(xor64(rotr64(W[i - 2 + 1], 19), rotr64(W[i - 2 + 1], 61)),
                    shr64(W[i - 2 + 1], 6))
    IN  add64(add64(add64(W[i - 16 + 1], s0), W[i - 7 + 1]), s1)

\* one round of the compression loop on the working variables v = a..h
sha512_round(v, W, i) ==
    LET a == v[1]  b == v[2]  c == v[3]  d == v[4]
        e == v[5]  f == v[6]  g == v[7]  h == v[8]
        S1 == xor64(xor64(rotr64(e, 14), rotr64(e, 18)), rotr64(e, 41))
        ch == xor64(and64(e, f), and64(not64(e), g))
        S0 == xor64(xor64(rotr64(a, 28), rotr64(a, 34)), rotr64(a, 39))
        maj == xor64(xor64(and64(a, b), and64(a, c)), and64(b, c))
        temp2 == add64(S0, maj)
    IN  (CHOOSE it \in {
                << add64(temp1, temp2), a, b, c, add64(d, temp1), e, f, g >>
      : temp1 \in { add64(add64(add64(add64(h, S1), ch), K[i + 1]), W[i + 1]) } } : TRUE)

\* the 64 output bytes: H[i] += working variable, written highest byte first
sha512_output(v) ==
    (CHOOSE it \in {
            [n \in 1..64 |->
                Field(out[(n - 1) \div 8 + 1], 13, 56 - 8 * ((n - 1) % 8), 8)]
      : out \in { << add64(H[1], v[1]), add64(H[2], v[2]), add64(H[3], v[3]), add64(H[4], v[4]), add64(H[5], v[5]), add64(H[6], v[6]), add64(H[7], v[7]), add64(H[8], v[8]) >> } } : TRUE)

(***************************************************************************)
(* Field arithmetic of the shader (metal_gpu.rs:121-300): an fe is five    *)
(* int64 limbs of 51 bits.                                                 *)
(***************************************************************************)
MASK51 == U64(\h7, \hffff, \hffff, \hffff)

fe_zero == << Word(0), Word(0), Word(0), Word(0), Word(0) >>

fe_one == << Word(1), Word(0), Word(0), Word(0), Word(0) >>

\* v1 .. v4 are f.v[1] .. f.v[4] after the carry has been added and before
\* the mask, v0 is f.v[0] after c * 19 has been added
fe_reduce(f) ==
    (CHOOSE it \in {
    (CHOOSE it \in {
    (CHOOSE it \in {
    (CHOOSE it \in {
    (CHOOSE it \in {
    (CHOOSE it \in {
        << and64(v0, MASK51),
           add64(and64(v1, MASK51), sar64(v0, 51)),
           and64(v2, MASK51), and64(v3, MASK51), and64(v4, MASK51) >>
      : v0 \in { add64(and64(f0[1], MASK51), mul64(sar64(v4, 51), Word(19))) } } : TRUE)
      : v4 \in { add64(f0[5], sar64(v3, 51)) } } : TRUE)
      : v3 \in { add64(f0[4], sar64(v2, 51)) } } : TRUE)
      : v2 \in { add64(f0[3], sar64(v1, 51)) } } : TRUE)
      : v1 \in { add64(f0[2], sar64(f0[1], 51)) } } : TRUE)
      : f0 \in { f } } : TRUE)

fe_add(a, b) ==
    (CHOOSE it \in {
        << add64(x[1], y[1]), add64(x[2], y[2]), add64(x[3], y[3]),
           add64(x[4], y[4]), add64(x[5], y[5]) >>
      : x \in { a }, y \in { b } } : TRUE)

fe_sub(a, b) ==
    (CHOOSE it \in {
        fe_reduce(<< add64(sub64(x[1], y[1]), U64(\hf, \hffff, \hffff, \hffda)),
                     add64(sub64(x[2], y[2]), U64(\hf, \hffff, \hffff, \hfffe)),
                     add64(sub64(x[3], y[3]), U64(\hf, \hffff, \hffff, \hfffe)),
                     add64(sub64(x[4], y[4]), U64(\hf, \hffff, \hffff, \hfffe)),
                     add64(sub64(x[5], y[5]), U64(\hf, \hffff, \hffff, \hfffe)) >>)
      : x \in { a }, y \in { b } } : TRUE)

fe_mul(a, b) ==
    (CHOOSE it \in {
    (CHOOSE it \in {
        LET a0 == x[1]  a1 == x[2]  a2 == x[3]  a3 == x[4]  a4 == x[5]
            b0 == y[1]  b1 == y[2]  b2 == y[3]  b3 == y[4]  b4 == y[5]
        IN  fe_reduce(fe_reduce(
              << add64(add64(add64(add64(mul64(a0, b0), mul64(a1, b4_19)),
                     mul64(a2, b3_19)), mul64(a3, b2_19)), mul64(a4, b1_19)),
                 add64(add64(add64(add64(mul64(a0, b1), mul64(a1, b0)),
                     mul64(a2, b4_19)), mul64(a3, b3_19)), mul64(a4, b2_19)),
                 add64(add64(add64(add64(mul64(a0, b2), mul64(a1, b1)),
                     mul64(a2, b0)), mul64(a3, b4_19)), mul64(a4, b3_19)),
                 add64(add64(add64(add64(mul64(a0, b3), mul64(a1, b2)),
                     mul64(a2, b1)), mul64(a3, b0)), mul64(a4, b4_19)),
                 add64(add64(add64(add64(mul64(a0, b4), mul64(a1, b3)),
                     mul64(a2, b2)), mul64(a3, b1)), mul64(a4, b0)) >>))
      : b1_19 \in { mul64(y[2], Word(19)) },
        b2_19 \in { mul64(y[3], Word(19)) },
        b3_19 \in { mul64(y[4], Word(19)) },
        b4_19 \in { mul64(y[5], Word(19)) } } : TRUE)
      : x \in { a }, y \in { b } } : TRUE)

fe_sq(a) == (CHOOSE it \in { fe_mul(x, x) : x \in { a } } : TRUE)

\* fe_inv as its statements in order: r = fe_sq_n(x, n) or r = fe_mul(x, y)
\* on the registers a, t0, t1, t2, t3; the last statement is the return
fe_inv ==
    << [r |-> "t0", op |-> "fe_sq_n", x |-> "a",  y |-> "a",  n |-> 1],
       [r |-> "t1", op |-> "fe_sq_n", x |-> "t0", y |-> "t0", n |-> 2],
       [r |-> "t1", op |-> "fe_mul",  x |-> "t1", y |-> "a",  n |-> 0],
       [r |-> "t0", op |-> "fe_mul",  x |-> "t0", y |-> "t1", n |-> 0],
       [r |-> "t2", op |-> "fe_sq_n", x |-> "t0", y |-> "t0", n |-> 1],
       [r |-> "t1", op |-> "fe_mul",  x |-> "t1", y |-> "t2", n |-> 0],
       [r |-> "t2", op |-> "fe_sq_n", x |-> "t1", y |-> "t1", n |-> 5],
       [r |-> "t1", op |-> "fe_mul",  x |-> "t1", y |-> "t2", n |-> 0],
       [r |-> "t2", op |-> "fe_sq_n", x |-> "t1", y |-> "t1", n |-> 10],
       [r |-> "t2", op |-> "fe_mul",  x |-> "t2", y |-> "t1", n |-> 0],
       [r |-> "t3", op |-> "fe_sq_n", x |-> "t2", y |-> "t2", n |-> 20],
       [r |-> "t2", op |-> "fe_mul",  x |-> "t3", y |-> "t2", n |-> 0],
       [r |-> "t2", op |-> "fe_sq_n", x |-> "t2", y |-> "t2", n |-> 10],
       [r |-> "t1", op |-> "fe_mul",  x |-> "t2", y |-> "t1", n |-> 0],
       [r |-> "t2", op |-> "fe_sq_n", x |-> "t1", y |-> "t1", n |-> 50],
       [r |-> "t2", op |-> "fe_mul",  x |-> "t2", y |-> "t1", n |-> 0],
       [r |-> "t3", op |-> "fe_sq_n", x |-> "t2", y |-> "t2", n |-> 100],
       [r |-> "t2", op |-> "fe_mul",  x |-> "t3", y |-> "t2", n |-> 0],
       [r |-> "t2", op |-> "fe_sq_n", x |-> "t2", y |-> "t2", n |-> 50],
       [r |-> "t1", op |-> "fe_mul",  x |-> "t2", y |-> "t1", n |-> 0],
       [r |-> "t1", op |-> "fe_sq_n", x |-> "t1", y |-> "t1", n |-> 5],
       [r |-> "recip", op |-> "fe_mul", x |-> "t1", y |-> "t0", n |-> 0] >>

\* the 32 bytes of f, least significant first; c0 .. c4 are the values of
\* c in the final reduction, w0 .. w4 the limbs before the last masks.  The
\* shader ORs shifted limbs whose bits do not overlap, written here as sums
\* of bit fields
fe_to_bytes(f) ==
    (CHOOSE it \in {
    (CHOOSE it \in {
    (CHOOSE it \in {
    (CHOOSE it \in {
    (CHOOSE it \in {
    (CHOOSE it \in {
    (CHOOSE it \in {
    (CHOOSE it \in {
    (CHOOSE it \in {
    (CHOOSE it \in {
    (CHOOSE it \in {
    (CHOOSE it \in {
        << Field(g[1], 13, 0, 8), Field(g[1], 13, 8, 8), Field(g[1], 13, 16, 8),
           Field(g[1], 13, 24, 8), Field(g[1], 13, 32, 8), Field(g[1], 13, 40, 8),
           Field(g[1], 13, 48, 3) + Field(g[2], 13, 0, 5) * 2^3,
           Field(g[2], 13, 5, 8), Field(g[2], 13, 13, 8), Field(g[2], 13, 21, 8),
           Field(g[2], 13, 29, 8), Field(g[2], 13, 37, 8),
           Field(g[2], 13, 45, 6) + Field(g[3], 13, 0, 2) * 2^6,
           Field(g[3], 13, 2, 8), Field(g[3], 13, 10, 8), Field(g[3], 13, 18, 8),
           Field(g[3], 13, 26, 8), Field(g[3], 13, 34, 8), Field(g[3], 13, 42, 8),
           Field(g[3], 13, 50, 1) + Field(g[4], 13, 0, 7) * 2^1,
           Field(g[4], 13, 7, 8), Field(g[4], 13, 15, 8), Field(g[4], 13, 23, 8),
           Field(g[4], 13, 31, 8), Field(g[4], 13, 39, 8),
           Field(g[4], 13, 47, 4) + Field(g[5], 13, 0, 4) * 2^4,
           Field(g[5], 13, 4, 8), Field(g[5], 13, 12, 8), Field(g[5], 13, 20, 8),
           Field(g[5], 13, 28, 8), Field(g[5], 13, 36, 8), Field(g[5], 13, 44, 8)
        >>
      : g \in { << and64(w0, MASK51), and64(w1, MASK51), and64(w2, MASK51), and64(w3, MASK51), and64(w4, MASK51) >> } } : TRUE)
      : w4 \in { add64(f2[5], sar64(w3, 51)) } } : TRUE)
      : w3 \in { add64(f2[4], sar64(w2, 51)) } } : TRUE)
      : w2 \in { add64(f2[3], sar64(w1, 51)) } } : TRUE)
      : w1 \in { add64(f2[2], sar64(w0, 51)) } } : TRUE)
      : w0 \in { add64(f2[1], mul64(Word(19), c4)) } } : TRUE)
      : c4 \in { sar64(add64(f2[5], c3), 51) } } : TRUE)
      : c3 \in { sar64(add64(f2[4], c2), 51) } } : TRUE)
      : c2 \in { sar64(add64(f2[3], c1), 51) } } : TRUE)
      : c1 \in { sar64(add64(f2[2], c0), 51) } } : TRUE)
      : c0 \in { sar64(add64(f2[1], Word(19)), 51) } } : TRUE)
      : f2 \in { fe_reduce(fe_reduce(f)) } } : TRUE)

(***************************************************************************)
(* Point operations of the shader (metal_gpu.rs:306-436): a ge is a point  *)
(* in extended coordinates X, Y, Z, T.                                     *)
(***************************************************************************)
get_d2 ==
    << U64(\h6, \h9b94, \h26b2, \hf159), U64(\h3, \h5050, \h762a, \hdd7a),
       U64(\h3, \hcf44, \hc003, \h8052), U64(\h6, \h738c, \hc740, \h7977),
       U64(\h2, \h406d, \h9dc5, \h6dff) >>

ge_base ==
    LET X == << U64(\h6, \h2d60, \h8f25, \hd51a), U64(\h4, \h12a4, \hb4f6, \h592a),
                U64(\h7, \h5b71, \h71a4, \hb31d), U64(\h1, \hff60, \h5271, \h18fe),
                U64(\h2, \h1693, \h6d3c, \hd6e5) >>
        Y == << U64(\h6, \h6666, \h6666, \h6658), U64(\h4, \hcccc, \hcccc, \hcccc),
                U64(\h1, \h9999, \h9999, \h9999), U64(\h3, \h3333, \h3333, \h3333),
                U64(\h6, \h6666, \h6666, \h6666) >>
    IN  [X |-> X, Y |-> Y, Z |-> fe_one, T |-> fe_mul(X, Y)]

ge_zero == [X |-> fe_zero, Y |-> fe_one, Z |-> fe_one, T |-> fe_zero]

\* C0 and E0, E1, E2 are the earlier values of the shader's C and E, and HH
\* is its H
ge_double(p) ==
    (CHOOSE it \in {
    (CHOOSE it \in {
    (CHOOSE it \in {
    (CHOOSE it \in {
        [X |-> fe_mul(E, F), Y |-> fe_mul(G, HH),
         T |-> fe_mul(E, HH), Z |-> fe_mul(F, G)]
      : E \in { fe_sub(E2, B) },
        F \in { fe_sub(G, C) } } : TRUE)
      : E2 \in { fe_sub(E1, A) },
        G \in { fe_add(D, B) },
        HH \in { fe_sub(D, B) } } : TRUE)
      : C \in { fe_add(C0, C0) },
        D \in { fe_sub(fe_zero, A) },
        E1 \in { fe_sq(E0) } } : TRUE)
      : A \in { fe_sq(p.X) },
        B \in { fe_sq(p.Y) },
        C0 \in { fe_sq(p.Z) },
        E0 \in { fe_add(p.X, p.Y) } } : TRUE)

ge_add(p, q) ==
    (CHOOSE it \in {
    (CHOOSE it \in {
    (CHOOSE it \in {
        [X |-> fe_mul(E, F), Y |-> fe_mul(G, HH),
         T |-> fe_mul(E, HH), Z |-> fe_mul(F, G)]
      : F \in { fe_sub(D, C) },
        G \in { fe_add(D, C) } } : TRUE)
      : D \in { fe_mul(D0, q.Z) },
        E \in { fe_sub(B, A) },
        HH \in { fe_add(B, A) } } : TRUE)
      : A \in { fe_mul(fe_sub(p.Y, p.X), fe_sub(q.Y, q.X)) },
        B \in { fe_mul(fe_add(p.Y, p.X), fe_add(q.Y, q.X)) },
        C \in { fe_mul(fe_mul(p.T, q.T), get_d2) },
        D0 \in { fe_add(p.Z, p.Z) } } : TRUE)

(***************************************************************************)
(* The CPU path's libraries (keygen.rs:10-13): sha2's Sha512 is SHA-512 of *)
(* FIPS 180-4, and curve25519_dalek's basepoint multiplication and         *)
(* compression are those of Ed25519 (RFC 8032, 5.1).  A field element is   *)
(* the number below p = 2^255 - 19 as twenty 13-bit limbs, least           *)
(* significant first, and the arithmetic on it is exact.  The hash uses    *)
(* the schedule, the round and the output of the shader's SHA-512 above,   *)
(* which are those of FIPS 180-4 on words modulo 2^64; with it the CPU     *)
(* path maps the secret key of RFC 8032, 7.1, TEST 1 to its public key.    *)
(***************************************************************************)
\* the padded block of a message shorter than 112 bytes (FIPS 180-4, 5.1.2)
Sha512Block(msg) ==
    (CHOOSE it \in {
            [i \in 1..16 |-> WordOfBytes(SubSeq(padded, 8 * i - 7, 8 * i))]
      : padded \in { msg \o << 128 >> \o [n \in 1..(125 - Len(msg)) |-> 0] \o << (8 * Len(msg)) \div 256, (8 * Len(msg)) % 256 >> } } : TRUE)

\* the field element written in hexadecimal as sixteen 16-bit groups,
\* highest first
FieldHex(gs) ==
    (CHOOSE it \in {
        [i \in 1..20 |-> Field(L, 16, 13 * (i - 1), 13)]
      : L \in { [n \in 1..16 |-> gs[17 - n]] } } : TRUE)

FieldOfInt(n) == [i \in 1..20 |-> IF i = 1 THEN n ELSE 0]

\* the limbs of the column sums s from column i on, four columns at a
\* time (s has twenty or forty columns), with carry c coming in; the last
\* limb is the carry out
RECURSIVE CarryFrom(_, _, _)
CarryFrom(s, i, c) ==
    IF i > Len(s) THEN << c >>
    ELSE << (s[i] + c) % Radix,
            (s[i + 1] + CarryOut(s, i, c, 1)) % Radix,
            (s[i + 2] + CarryOut(s, i, c, 2)) % Radix,
            (s[i + 3] + CarryOut(s, i, c, 3)) % Radix >>
         \o (CHOOSE it \in {
                 CarryFrom(s, j, c4)
           : j \in { i + 4 }, c4 \in { CarryOut(s, i, c, 4) } } : TRUE)

Carry(s) == (CHOOSE it \in { CarryFrom(x, 1, 0) : x \in { s } } : TRUE)

\* bits 255 and above of twenty limbs folded back: 2^255 = 19 (mod p)
FoldTop(c) ==
    (CHOOSE it \in {
        [i \in 1..20 |->
            IF i = 1 THEN x[1] + 19 * (x[20] \div 2^8)
            ELSE IF i = 20 THEN x[20] % 2^8
            ELSE x[i]]
      : x \in { c } } : TRUE)

\* the field element of forty column sums: 2^260 = 608 (mod p)
FieldReduce(s) ==
    (CHOOSE it \in {
    (CHOOSE it \in {
    (CHOOSE it \in {
    (CHOOSE it \in {
    (CHOOSE it \in {
        IF c5[20] \div 2^8 = 1
        THEN SubSeq(c5, 1, 19) \o << c5[20] % 2^8 >>
        ELSE SubSeq(c4, 1, 20)
      : c5 \in { Carry([i \in 1..20 |-> IF i = 1 THEN c4[1] + 19 ELSE c4[i]]) } } : TRUE)
      : c4 \in { Carry(FoldTop(c3)) } } : TRUE)
      : c3 \in { Carry(FoldTop([i \in 1..20 |-> IF i = 1 THEN c2[1] + 608 * c2[21] ELSE c2[i]])) } } : TRUE)
      : c2 \in { Carry([i \in 1..20 |-> c1[i] + 608 * c1[i + 20]]) } } : TRUE)
      : c1 \in { Carry(s) } } : TRUE)

FieldAdd(a, b) ==
    (CHOOSE it \in {
        FieldReduce([k \in 1..40 |-> IF k <= 20 THEN x[k] + y[k] ELSE 0])
      : x \in { a }, y \in { b } } : TRUE)

\* a - b: 64p, as limbs none of which is below a limb of b, is added first
FieldSub(a, b) ==
    (CHOOSE it \in {
        FieldReduce([k \in 1..40 |->
            IF k = 1 THEN x[1] + 2 * (Radix - 608) - y[1]
            ELSE IF k <= 20 THEN x[k] + 2 * (Radix - 1) - y[k]
            ELSE 0])
      : x \in { a }, y \in { b } } : TRUE)

\* column k of the product of a and b: the sum of a[i] * b[k + 1 - i] for
\* i in lo .. hi, four terms at a time
Term(a, b, k, i, hi) == IF i <= hi THEN a[i] * b[k + 1 - i] ELSE 0

RECURSIVE Dot(_, _, _, _, _)
Dot(a, b, k, lo, hi) ==
    IF lo > hi THEN 0
    ELSE Term(a, b, k, lo, hi) + Term(a, b, k, lo + 1, hi)
         + Term(a, b, k, lo + 2, hi) + Term(a, b, k, lo + 3, hi)
         + Dot(a, b, k, lo + 4, hi)

FieldMul(a, b) ==
    (CHOOSE it \in {
        FieldReduce([k \in 1..40 |->
            IF k <= 20 THEN Dot(x, y, k, 1, k) ELSE Dot(x, y, k, k - 19, 20)])
      : x \in { a }, y \in { b } } : TRUE)

\* the curve constant d = -121665/121666 and the base point (RFC 8032, 5.1)
CurveD ==
    FieldHex(<< \h5203, \h6cee, \h2b6f, \hfe73, \h8cc7, \h4079, \h7779, \he898,
                \h0070, \h0a4d, \h4141, \hd8ab, \h75eb, \h4dca, \h1359, \h78a3 >>)

ED25519_BASEPOINT ==
    LET x == FieldHex(<< \h2169, \h36d3, \hcd6e, \h53fe, \hc0a4, \he231, \hfdd6,
                         \hdc5c, \h692c, \hc760, \h9525, \ha7b2, \hc956, \h2d60,
                         \h8f25, \hd51a >>)
        y == FieldHex(<< \h6666, \h6666, \h6666, \h6666, \h6666, \h6666, \h6666,
                         \h6666, \h6666, \h6666, \h6666, \h6666, \h6666, \h6666,
                         \h6666, \h6658 >>)
    IN  [X |-> x, Y |-> y, Z |-> FieldOfInt(1), T |-> FieldMul(x, y)]

PointIdentity ==
    [X |-> FieldOfInt(0), Y |-> FieldOfInt(1), Z |-> FieldOfInt(1),
     T |-> FieldOfInt(0)]

\* point addition and doubling in extended coordinates (RFC 8032, 5.1.4)
PointAdd(P, Q) ==
    (CHOOSE it \in {
    (CHOOSE it \in {
        [X |-> FieldMul(E, F), Y |-> FieldMul(G, HH),
         T |-> FieldMul(E, HH), Z |-> FieldMul(F, G)]
      : E \in { FieldSub(B, A) },
        F \in { FieldSub(D, C) },
        G \in { FieldAdd(D, C) },
        HH \in { FieldAdd(B, A) } } : TRUE)
      : A \in { FieldMul(FieldSub(P.Y, P.X), FieldSub(Q.Y, Q.X)) },
        B \in { FieldMul(FieldAdd(P.Y, P.X), FieldAdd(Q.Y, Q.X)) },
        C \in { FieldMul(FieldMul(P.T, FieldAdd(CurveD, CurveD)), Q.T) },
        D \in { FieldMul(FieldAdd(P.Z, P.Z), Q.Z) } } : TRUE)

PointDouble(P) ==
    (CHOOSE it \in {
    (CHOOSE it \in {
    (CHOOSE it \in {
        [X |-> FieldMul(E, F), Y |-> FieldMul(G, HH),
         T |-> FieldMul(E, HH), Z |-> FieldMul(F, G)]
      : E \in { FieldSub(HH, E1) },
        F \in { FieldAdd(C, G) } } : TRUE)
      : C \in { FieldAdd(C0, C0) },
        HH \in { FieldAdd(A, B) },
        G \in { FieldSub(A, B) },
        E1 \in { FieldMul(E0, E0) } } : TRUE)
      : A \in { FieldMul(P.X, P.X) },
        B \in { FieldMul(P.Y, P.Y) },
        C0 \in { FieldMul(P.Z, P.Z) },
        E0 \in { FieldAdd(P.X, P.Y) } } : TRUE)

\* the 32 bytes of the point with affine coordinates x, y: y, least
\* significant byte first, with the low bit of x in the top bit
PointBytes(x, y) ==
    (CHOOSE it \in {
        [n \in 1..32 |->
            Field(v, 13, 8 * (n - 1), 8)
            + (IF n = 32 THEN (u[1] % 2) * 2^7 ELSE 0)]
      : u \in { x }, v \in { y } } : TRUE)

(***************************************************************************)
(* State.                                                                  *)
(***************************************************************************)
VARIABLES
    \* WorkerPool fields (worker.rs:22-36)
    num_workers, pattern_config, gpu_enabled, gpu_attempts,
    worker_handles,
    \* the shared atomics: should_stop, total_attempts, one counter per
    \* worker_id (attempts_per_worker) and the accelerator's counter
    should_stop, total_attempts, attempts_per_worker, gpu_counter,
    \* every thread start() has spawned, in spawn order; a JoinHandle is an
    \* index into this sequence
    threads,
    \* the result channel: the keys in flight and whether the Receiver lives
    channel, rx_alive,
    \* history: which kinds of worker ("cpu", "gpu") have sent a key
    sent,
    \* how many more batches the model lets the workers start
    fuel,
    \* the pool's client (main, or a test): where it is
    client_pc,
    \* main's collector (main.rs:255-324): args.target_keys, verify, the
    \* found_count atomic, found_keys and known_keys
    target_keys, verify, found_count, found_keys, known_keys,
    \* one seed on both derivation paths: the seed, generate_from_seed's
    \* locals on the CPU (host) and one thread of the kernel (lane)
    seed, host, lane,
    \* history: the KeyInfo of every call of generate_from_seed that has
    \* returned, in call order
    returned,
    \* verify_key's locals (keygen.rs:110-122)
    verifier,
    \* KeyStorage: the StorageDatabase behind the mutex (mem) and whether the
    \* file at db_path holds it (saved)
    db,
    \* gpu_worker_loop's dispatch loop, step by step, with the kernel's lanes (metal_gpu.rs:563-657)
    accel,
    \* the machine detect_cpu_cores runs on and what its calls returned
    detected,
    \* one call of matches_pattern_bytes: its arguments and what it returned
    call

search_vars == << num_workers, pattern_config, gpu_enabled, gpu_attempts,
           worker_handles, should_stop, total_attempts, attempts_per_worker,
           gpu_counter, threads, channel, rx_alive, sent, fuel, client_pc,
           target_keys, verify, found_count, found_keys, known_keys >>

derive_vars == << seed, host, lane, returned, verifier, detected, accel, db, call >>

vars == << search_vars, derive_vars >>

pool_vars == << num_workers, pattern_config, gpu_enabled, gpu_attempts,
                worker_handles >>

collector_vars == << target_keys, verify, found_count, found_keys, known_keys >>

ThreadIds == DOMAIN threads

\* should_stop.load(Ordering::Relaxed)
ShouldStopLoadStale == FALSE
ShouldStopLoad == should_stop

\* generate_from_seed before its first statement: pc is its position, i the
\* loop index, W and v the hash's schedule and working variables, Q the
\* running multiple of the base point, e the running power of Z
HostIdle ==
    [pc |-> "idle", i |-> 0, W |-> << >>, v |-> << >>, digest |-> << >>,
     clamped |-> << >>, Q |-> << >>, e |-> << >>,
     public_bytes |-> << >>, private_bytes |-> << >>]

\* verify_key before its first statement: clamped is private_bytes[..32],
\* Q the running multiple of the base point, e the running power of Z,
\* result the returned bool
VerifierIdle ==
    [pc |-> "idle", i |-> 0, key_info |-> << >>, clamped |-> << >>,
     Q |-> << >>, e |-> << >>, result |-> FALSE]

\* no call of matches_pattern_bytes or matches_pattern is under way, nor of
\* the validators
CallNone ==
    [pc |-> "none", public_bytes |-> << >>,
     config |-> PatternConfig("Any", FALSE, << >>, 0), outcome |-> "none",
     hex_outcome |-> "none",
     ecdh_ok |-> FALSE, valid |-> "none", prefix_ok |-> "none"]

\* a thread of the kernel with its seed filled in: the locals of
\* sha512_32bytes, ge_scalarmult (result, temp) and fe_inv (regs, stmt)
LaneIdle ==
    [pc |-> "idle", i |-> 0, W |-> << >>, v |-> << >>, hash |-> << >>,
     scalar |-> << >>, result |-> << >>, temp |-> << >>, regs |-> << >>,
     stmt |-> 0, public_key |-> << >>, private_key |-> << >>]

(***************************************************************************)
(* WorkerPool::new (worker.rs:40-62): the state after construction, before *)
(* any thread exists.                                                      *)
(***************************************************************************)
WorkerPoolNew ==
    /\ num_workers \in 0..MaxWorkers
    \* PatternConfig::default() (pattern.rs:33-41) or
    \* PatternConfig::with_prefix("ab") (pattern.rs:46-52)
    /\ pattern_config \in { PatternConfig("Pattern", FALSE, <<>>, 8),
                            PatternConfig("Prefix", TRUE, to_uppercase(<<97, 98>>), 8) }
    /\ gpu_enabled = FALSE
    /\ gpu_attempts = "None"
    /\ worker_handles = << >>
    /\ should_stop = FALSE
    /\ total_attempts = 0
    /\ attempts_per_worker = [w \in 0..(num_workers - 1) |-> 0]
    /\ gpu_counter = 0
    /\ threads = << >>
    /\ channel = << >>
    /\ rx_alive = TRUE
    /\ sent = {}
    /\ fuel = MaxBatches
    /\ client_pc = "idle"
    /\ target_keys \in 1..MaxTarget
    /\ verify = TRUE
    /\ found_count = 0
    /\ found_keys = << >>

\* no seed is being derived while the pool searches
Init ==
    /\ WorkerPoolNew
    \* main.rs:161-165, 318: known_keys starts as the keys load_existing_keys
    \* found under the output directory, none without --skip-existing
    /\ known_keys \in {{}, {1}}
    /\ seed = << >>
    /\ host = HostIdle
    /\ lane = LaneIdle
    /\ returned = << >>
    /\ verifier = VerifierIdle
    /\ db = << >>
    /\ accel = << >>
    /\ detected = << >>
    /\ call = CallNone

(***************************************************************************)
(* Threads.  pc is the thread's position in its loop; exit is how its      *)
(* function ended: "running" while it has not, "returned" for              *)
(* cpu_worker_loop, "Ok" or "Err" for the Result of gpu_worker_loop,       *)
(* "panic" for an unwind.  History only: post_stop counts the batches it   *)
(* added to total_attempts while should_stop was true, observed records    *)
(* that one of its loads of should_stop returned true, send_failed that    *)
(* one of its sends returned an error.                                     *)
(***************************************************************************)
\* the thread spawn_cpu_worker starts (worker.rs:101-121)
NewCpuThread(worker_id) ==
    [kind |-> "cpu", worker_id |-> worker_id, pc |-> "top", i |-> 0,
     local_attempts |-> 0, counter |-> "None",
     batch_number |-> 0, exit |-> "running", post_stop |-> 0,
     observed |-> FALSE, send_failed |-> FALSE]

\* the thread start_gpu_worker starts (worker.rs:125-148); it clones
\* self.gpu_attempts as it is at the spawn
NewGpuThread ==
    [kind |-> "gpu", worker_id |-> -1, pc |-> "init", i |-> 0,
     local_attempts |-> 0, counter |-> gpu_attempts,
     batch_number |-> 0, exit |-> "running", post_stop |-> 0,
     observed |-> FALSE, send_failed |-> FALSE]

\* the thread has returned (or panicked): its locals are gone
Exited(th, how) ==
    [th EXCEPT !.pc = "done", !.exit = how, !.i = 0, !.local_attempts = 0,
               !.batch_number = 0]

(***************************************************************************)
(* The result channel (crossbeam_channel::unbounded).                      *)
(***************************************************************************)
\* Sender::send(key).is_err(): the send fails exactly when the Receiver
\* has been dropped, ~rx_alive
\* whether some candidate is not a match (a run of such candidates can
\* follow in the batch)
\* worker.rs:184-186: `if result_sender.send(key).is_err() { return; }`
CpuSendErrorIgnored(th) ==
    [th EXCEPT !.send_failed = TRUE, !.local_attempts = @ + 1, !.i = @ + 1]
CpuSendError(th) == Exited([th EXCEPT !.send_failed = TRUE], "returned")

\* worker.rs:182: the condition under which the CPU worker sends candidate k
CpuSendsAny(k) == TRUE
CpuSends(k) == matches_pattern_bytes(public_bytes(k), pattern_config)

SomeKeyMisses ==
    \E k \in Keys : /\ ~matches_pattern_bytes_panics(public_bytes(k), pattern_config)
                    /\ ~matches_pattern_bytes(public_bytes(k), pattern_config)

(***************************************************************************)
(* cpu_worker_loop (worker.rs:162-202).                                    *)
(***************************************************************************)
\* worker.rs:174-176: the check at the top of the loop
CpuCheckTop(t) ==
    /\ threads[t].kind = "cpu" /\ threads[t].pc = "top"
    /\ IF ShouldStopLoad
       THEN /\ threads' = [threads EXCEPT ![t] =
                             [Exited(@, "returned") EXCEPT !.observed = TRUE]]
            /\ UNCHANGED fuel
       ELSE /\ fuel > 0
            /\ fuel' = fuel - 1
            /\ threads' = [threads EXCEPT ![t].pc = "batch", ![t].i = 0]
    /\ UNCHANGED << derive_vars, pool_vars, should_stop, total_attempts, attempts_per_worker,
                    gpu_counter, channel, rx_alive, sent, client_pc, collector_vars >>

\* worker.rs:179-190: one turn of the for loop, on a candidate key k that
\* matches (or on which the matcher panics); the turns on candidates that
\* do not match are those of CpuFinishBatch
CpuCandidate(t, k) ==
    /\ threads[t].kind = "cpu" /\ threads[t].pc = "batch"
    /\ threads[t].i < BATCH_SIZE /\ threads[t].i < MaxCand
    /\ IF matches_pattern_bytes_panics(public_bytes(k), pattern_config)
       THEN /\ threads' = [threads EXCEPT ![t] = Exited(@, "panic")]
            /\ UNCHANGED << channel, sent >>
       ELSE /\ CpuSends(k)
            /\ IF ~rx_alive
               THEN /\ threads' = [threads EXCEPT ![t] = CpuSendError(@)]
                    /\ UNCHANGED << channel, sent >>
               ELSE /\ Len(channel) < MaxChan
                    /\ channel' = Append(channel, k)
                    /\ sent' = sent \cup {"cpu"}
                    /\ threads' = [threads EXCEPT
                                     ![t].local_attempts = @ + 1, ![t].i = @ + 1]
    /\ UNCHANGED << derive_vars, pool_vars, should_stop, total_attempts, attempts_per_worker,
                    gpu_counter, rx_alive, client_pc, collector_vars, fuel >>

\* worker.rs:179-193: the remaining turns of the for loop, from i to
\* BATCH_SIZE, on candidates none of which matches (each adds 1 to
\* local_attempts and touches no shared state), and then
\* total_attempts.fetch_add(local_attempts)
CpuFinishBatch(t) ==
    /\ threads[t].kind = "cpu" /\ threads[t].pc = "batch"
    /\ threads[t].i = BATCH_SIZE \/ SomeKeyMisses
    /\ LET local_attempts == threads[t].local_attempts + (BATCH_SIZE - threads[t].i)
       IN  /\ total_attempts' = total_attempts + local_attempts
           /\ threads' = [threads EXCEPT
                            ![t].pc = "add_worker",
                            ![t].i = BATCH_SIZE,
                            ![t].local_attempts = local_attempts,
                            ![t].post_stop = IF should_stop THEN @ + 1 ELSE @]
    /\ UNCHANGED << derive_vars, pool_vars, should_stop, attempts_per_worker, gpu_counter,
                    channel, rx_alive, sent, client_pc, collector_vars, fuel >>

\* worker.rs:194-195: worker_attempts.fetch_add(local_attempts);
\* local_attempts = 0
CpuAddWorkerOne(t) ==
    /\ threads[t].kind = "cpu" /\ threads[t].pc = "add_worker"
    /\ attempts_per_worker' =
         [attempts_per_worker EXCEPT ![threads[t].worker_id] = @ + 1]
    /\ threads' = [threads EXCEPT
                     ![t].pc = "bottom", ![t].i = 0, ![t].local_attempts = 0]
    /\ UNCHANGED << derive_vars, pool_vars, should_stop, total_attempts, gpu_counter,
                    channel, rx_alive, sent, client_pc, collector_vars, fuel >>

CpuAddWorker(t) ==
    /\ threads[t].kind = "cpu" /\ threads[t].pc = "add_worker"
    /\ attempts_per_worker' =
         [attempts_per_worker EXCEPT
            ![threads[t].worker_id] = @ + threads[t].local_attempts]
    /\ threads' = [threads EXCEPT
                     ![t].pc = "bottom", ![t].i = 0, ![t].local_attempts = 0]
    /\ UNCHANGED << derive_vars, pool_vars, should_stop, total_attempts, gpu_counter,
                    channel, rx_alive, sent, client_pc, collector_vars, fuel >>

\* worker.rs:198-200: the check after the batch
CpuCheckBottom(t) ==
    /\ threads[t].kind = "cpu" /\ threads[t].pc = "bottom"
    /\ IF ShouldStopLoad
       THEN threads' = [threads EXCEPT ![t] =
                          [Exited(@, "returned") EXCEPT !.observed = TRUE]]
       ELSE threads' = [threads EXCEPT ![t].pc = "top"]
    /\ UNCHANGED << derive_vars, pool_vars, should_stop, total_attempts, attempts_per_worker,
                    gpu_counter, channel, rx_alive, sent, client_pc, collector_vars, fuel >>

CpuStep(t) ==
    \/ CpuCheckTop(t)
    \/ \E k \in Keys : CpuCandidate(t, k)
    \/ CpuFinishBatch(t)
    \/ CpuAddWorker(t)
    \/ CpuCheckBottom(t)


(***************************************************************************)
(* gpu_worker_loop (metal_gpu.rs:501-660).                                 *)
(***************************************************************************)
\* metal_gpu.rs:509-561: device, shader, pipeline and buffers; each `?`
\* returns Err from the worker, which start_gpu_worker prints
GpuInit(t, ok) ==
    /\ threads[t].kind = "gpu" /\ threads[t].pc = "init"
    /\ threads' = [threads EXCEPT ![t] =
                     IF ok THEN [@ EXCEPT !.pc = "top"]
                           ELSE Exited(@, "Err")]
    /\ UNCHANGED << derive_vars, pool_vars, should_stop, total_attempts, attempts_per_worker,
                    gpu_counter, channel, rx_alive, sent, client_pc, collector_vars, fuel >>

\* metal_gpu.rs:564-566: the check at the top of the loop
GpuCheckTop(t) ==
    /\ threads[t].kind = "gpu" /\ threads[t].pc = "top"
    /\ IF ShouldStopLoad
       THEN /\ threads' = [threads EXCEPT ![t] =
                             [Exited(@, "Ok") EXCEPT !.observed = TRUE]]
            /\ UNCHANGED fuel
       ELSE /\ fuel > 0
            /\ fuel' = fuel - 1
            /\ threads' = [threads EXCEPT ![t].pc = "dispatch"]
    /\ UNCHANGED << derive_vars, pool_vars, should_stop, total_attempts, attempts_per_worker,
                    gpu_counter, channel, rx_alive, sent, client_pc, collector_vars >>

\* a loop that gives up on a dispatch that ends in Error
GpuDispatchFatal(t, status) ==
    /\ threads[t].kind = "gpu" /\ threads[t].pc = "dispatch"
    /\ threads' = [threads EXCEPT ![t] =
                     IF status = "Error" THEN Exited(@, "Err")
                     ELSE [@ EXCEPT !.batch_number = @ + 1, !.pc = "scan", !.i = 0]]
    /\ UNCHANGED << derive_vars, pool_vars, should_stop, total_attempts, attempts_per_worker,
                    gpu_counter, channel, rx_alive, sent, client_pc, collector_vars, fuel >>

\* metal_gpu.rs:568-607: new random state and offset, batch_number + 1
\* (a u32; the model stops a thread long before it wraps), commit, wait,
\* and the status check: Error sleeps and continues the loop
GpuDispatch(t, status) ==
    /\ threads[t].kind = "gpu" /\ threads[t].pc = "dispatch"
    /\ threads' = [threads EXCEPT
                     ![t].batch_number = @ + 1,
                     ![t].pc = IF status = "Error" THEN "top" ELSE "scan",
                     ![t].i = 0]
    /\ UNCHANGED << derive_vars, pool_vars, should_stop, total_attempts, attempts_per_worker,
                    gpu_counter, channel, rx_alive, sent, client_pc, collector_vars, fuel >>

\* metal_gpu.rs:613-616: a turn of the for loop that finds should_stop true
GpuScanStop(t) ==
    /\ threads[t].kind = "gpu" /\ threads[t].pc = "scan"
    /\ threads[t].i < GPU_BATCH_SIZE
    /\ ShouldStopLoad
    /\ threads' = [threads EXCEPT ![t] =
                     [Exited(@, "Ok") EXCEPT !.observed = TRUE]]
    /\ UNCHANGED << derive_vars, pool_vars, should_stop, total_attempts, attempts_per_worker,
                    gpu_counter, channel, rx_alive, sent, client_pc, collector_vars, fuel >>

\* metal_gpu.rs:613-651: one turn of the for loop that finds should_stop
\* false and reads from the output buffers a candidate key k that matches
\* (or on which the matcher panics); the turns on candidates that do not
\* match are those of GpuRun
GpuCandidate(t, k) ==
    /\ threads[t].kind = "gpu" /\ threads[t].pc = "scan"
    /\ threads[t].i < GPU_BATCH_SIZE /\ threads[t].i < MaxCand
    /\ ~ShouldStopLoad
    /\ IF matches_pattern_bytes_panics(public_bytes(k), pattern_config)
       THEN /\ threads' = [threads EXCEPT ![t] = Exited(@, "panic")]
            /\ UNCHANGED << channel, sent >>
       ELSE \* metal_gpu.rs:629: only a candidate that matches is sent
            /\ matches_pattern_bytes(public_bytes(k), pattern_config)
            /\ IF ~rx_alive
               THEN \* metal_gpu.rs:647-649: return Ok(()) when the send fails
                    /\ threads' = [threads EXCEPT ![t] =
                                     Exited([@ EXCEPT !.send_failed = TRUE], "Ok")]
                    /\ UNCHANGED << channel, sent >>
               ELSE /\ Len(channel) < MaxChan
                    /\ channel' = Append(channel, k)
                    /\ sent' = sent \cup {"gpu"}
                    /\ threads' = [threads EXCEPT ![t].i = @ + 1]
    /\ UNCHANGED << derive_vars, pool_vars, should_stop, total_attempts, attempts_per_worker,
                    gpu_counter, rx_alive, client_pc, collector_vars, fuel >>

\* metal_gpu.rs:613-651: the turns of the for loop from i to the end of the
\* batch, each finding should_stop false and a candidate that does not match
GpuRun(t) ==
    /\ threads[t].kind = "gpu" /\ threads[t].pc = "scan"
    /\ threads[t].i < GPU_BATCH_SIZE
    /\ ~ShouldStopLoad
    /\ SomeKeyMisses
    /\ threads' = [threads EXCEPT ![t].i = GPU_BATCH_SIZE]
    /\ UNCHANGED << derive_vars, pool_vars, should_stop, total_attempts, attempts_per_worker,
                    gpu_counter, channel, rx_alive, sent, client_pc, collector_vars, fuel >>

\* metal_gpu.rs:653: total_attempts.fetch_add(GPU_BATCH_SIZE)
GpuAddTotal(t) ==
    /\ threads[t].kind = "gpu" /\ threads[t].pc = "scan"
    /\ threads[t].i = GPU_BATCH_SIZE
    /\ total_attempts' = total_attempts + GPU_BATCH_SIZE
    /\ threads' = [threads EXCEPT
                     ![t].pc = "add_counter",
                     ![t].post_stop = IF should_stop THEN @ + 1 ELSE @]
    /\ UNCHANGED << derive_vars, pool_vars, should_stop, attempts_per_worker, gpu_counter,
                    channel, rx_alive, sent, client_pc, collector_vars, fuel >>

\* metal_gpu.rs:654-656: if let Some(counter) = &gpu_attempts
GpuAddCounter(t) ==
    /\ threads[t].kind = "gpu" /\ threads[t].pc = "add_counter"
    /\ gpu_counter' = IF threads[t].counter = "Some"
                      THEN gpu_counter + GPU_BATCH_SIZE
                      ELSE gpu_counter
    /\ threads' = [threads EXCEPT ![t].pc = "top", ![t].i = 0]
    /\ UNCHANGED << derive_vars, pool_vars, should_stop, total_attempts, attempts_per_worker,
                    channel, rx_alive, sent, client_pc, collector_vars, fuel >>

GpuStep(t) ==
    \/ \E ok \in BOOLEAN : GpuInit(t, ok)
    \/ GpuCheckTop(t)
    \/ \E status \in {"Completed", "Error"} : GpuDispatch(t, status)
    \/ GpuScanStop(t)
    \/ \E k \in Keys : GpuCandidate(t, k)
    \/ GpuRun(t)
    \/ GpuAddTotal(t)
    \/ GpuAddCounter(t)

ThreadStep(t) == CpuStep(t) \/ GpuStep(t)


(***************************************************************************)
(* The pool's interface (worker.rs:64-159), called by the client.          *)
(***************************************************************************)
\* worker.rs:66-68
EnableGpu ==
    /\ client_pc = "idle" /\ ~gpu_enabled
    /\ gpu_enabled' = TRUE
    /\ UNCHANGED << derive_vars, num_workers, pattern_config, gpu_attempts, worker_handles,
                    should_stop, total_attempts, attempts_per_worker,
                    gpu_counter, threads, channel, rx_alive, sent, client_pc,
                    collector_vars, fuel >>

\* worker.rs:72-74
SetGpuAttempts ==
    /\ client_pc = "idle" /\ gpu_attempts = "None"
    /\ gpu_attempts' = "Some"
    /\ UNCHANGED << derive_vars, num_workers, pattern_config, gpu_enabled, worker_handles,
                    should_stop, total_attempts, attempts_per_worker,
                    gpu_counter, threads, channel, rx_alive, sent, client_pc,
                    collector_vars, fuel >>

\* the threads one call of start() spawns, in order: the accelerator worker
\* if gpu_enabled, then worker_id 0 .. num_workers - 1
Spawned ==
    (IF gpu_enabled THEN << NewGpuThread >> ELSE << >>)
      \o [w \in 1..num_workers |-> NewCpuThread(w - 1)]

\* worker.rs:88-98, with spawn_cpu_worker and start_gpu_worker.  Nothing in
\* start() looks at worker_handles or at should_stop: it may be called
\* again while the threads of an earlier call are running.
StartResetsStop ==
    /\ client_pc \in {"idle", "drain", "stopped"}
    /\ Len(threads) + Len(Spawned) <= MaxThreads
    /\ threads' = threads \o Spawned
    /\ worker_handles' =
         worker_handles \o [k \in 1..Len(Spawned) |-> Len(threads) + k]
    /\ client_pc' = "drain"
    /\ should_stop' = FALSE
    /\ UNCHANGED << derive_vars, num_workers, pattern_config, gpu_enabled, gpu_attempts,
                    total_attempts, attempts_per_worker,
                    gpu_counter, channel, rx_alive, sent, collector_vars, fuel >>

Start ==
    /\ client_pc \in {"idle", "drain", "stopped"}
    /\ Len(threads) + Len(Spawned) <= MaxThreads
    /\ threads' = threads \o Spawned
    /\ worker_handles' =
         worker_handles \o [k \in 1..Len(Spawned) |-> Len(threads) + k]
    /\ client_pc' = "drain"
    /\ UNCHANGED << derive_vars, num_workers, pattern_config, gpu_enabled, gpu_attempts,
                    should_stop, total_attempts, attempts_per_worker,
                    gpu_counter, channel, rx_alive, sent, collector_vars, fuel >>

\* worker.rs:152: stop() stores true, then starts to drain worker_handles
StopBegin ==
    /\ client_pc \in {"drain", "stop_call"}
    /\ should_stop' = TRUE
    /\ client_pc' = "joining"
    /\ UNCHANGED << derive_vars, pool_vars, total_attempts, attempts_per_worker,
                    gpu_counter, threads, channel, rx_alive, sent, collector_vars, fuel >>

\* worker.rs:155-157: handle.join() returns once the thread has ended; its
\* result (Err after a panic) is dropped
StopJoinNoWait ==
    /\ client_pc = "joining"
    /\ worker_handles # << >>
    /\ worker_handles' = Tail(worker_handles)
    /\ UNCHANGED << derive_vars, num_workers, pattern_config, gpu_enabled, gpu_attempts,
                    should_stop, total_attempts, attempts_per_worker,
                    gpu_counter, threads, channel, rx_alive, sent, client_pc,
                    collector_vars, fuel >>

StopJoin ==
    /\ client_pc = "joining"
    /\ worker_handles # << >>
    /\ threads[Head(worker_handles)].pc = "done"
    /\ worker_handles' = Tail(worker_handles)
    /\ UNCHANGED << derive_vars, num_workers, pattern_config, gpu_enabled, gpu_attempts,
                    should_stop, total_attempts, attempts_per_worker,
                    gpu_counter, threads, channel, rx_alive, sent, client_pc,
                    collector_vars, fuel >>

\* worker.rs:158: the drain is over, stop() returns
StopReturn ==
    /\ client_pc = "joining"
    /\ worker_handles = << >>
    /\ client_pc' = "stopped"
    /\ UNCHANGED << derive_vars, pool_vars, should_stop, total_attempts, attempts_per_worker,
                    gpu_counter, threads, channel, rx_alive, sent, collector_vars, fuel >>

(***************************************************************************)
(* The client between start() and stop(): main's collector loop            *)
(* (main.rs:326-613) and what the tests of worker.rs do.                   *)
(***************************************************************************)
\* a validator that is the ECDH cross-check alone
validate_by_ecdh_alone(key_public_bytes, ecdh_ok) == ecdh_ok

\* keygen.rs:136-194: the two reserved first bytes fail; otherwise the
\* result is that of the ECDH cross-check, computed by curve25519_dalek
validate_for_meshcore(key_public_bytes, ecdh_ok) ==
    IF At(key_public_bytes, 0) = 0 THEN FALSE
    ELSE IF At(key_public_bytes, 0) = 255 THEN FALSE
    ELSE ecdh_ok

\* keygen.rs:225-227
is_valid_meshcore_prefix(key_public_bytes) ==
    At(key_public_bytes, 0) # 0 /\ At(key_public_bytes, 0) # 255

\* a collector that reports the validation but accepts the key all the same
CollectorRecvKeepsInvalid(ecdh_ok) ==
    /\ client_pc = "drain" /\ rx_alive
    /\ channel # << >>
    /\ channel' = Tail(channel)
    /\ LET key == Head(channel)
           valid == IF verify THEN validate_for_meshcore(public_bytes(key), ecdh_ok) ELSE TRUE
           count == found_count + 1
       IN  IF key \in known_keys
           THEN UNCHANGED << found_count, found_keys, known_keys, should_stop >>
           ELSE /\ found_count' = count
                /\ known_keys' = known_keys \cup {key}
                /\ found_keys' = Append(found_keys,
                                        [index |-> count, key |-> key,
                                         meshcore_valid |-> valid])
                /\ should_stop' = IF Len(found_keys') >= target_keys
                                  THEN TRUE ELSE should_stop
    /\ UNCHANGED << derive_vars, pool_vars, total_attempts, attempts_per_worker, gpu_counter,
                    threads, rx_alive, sent, client_pc, target_keys,
                    verify, fuel >>

\* a collector that does not look a received key up in known_keys
CollectorRecvKeepsDuplicate(ecdh_ok) ==
    /\ client_pc = "drain" /\ rx_alive
    /\ channel # << >>
    /\ channel' = Tail(channel)
    /\ LET key == Head(channel)
           valid == IF verify THEN validate_for_meshcore(public_bytes(key), ecdh_ok) ELSE TRUE
           count == found_count + 1
       IN  IF verify /\ ~valid
           THEN UNCHANGED << found_count, found_keys, known_keys, should_stop >>
           ELSE /\ found_count' = count
                /\ known_keys' = known_keys \cup {key}
                /\ found_keys' = Append(found_keys,
                                        [index |-> count, key |-> key,
                                         meshcore_valid |-> valid])
                /\ should_stop' = IF Len(found_keys') >= target_keys
                                  THEN TRUE ELSE should_stop
    /\ UNCHANGED << derive_vars, pool_vars, total_attempts, attempts_per_worker, gpu_counter,
                    threads, rx_alive, sent, client_pc, target_keys,
                    verify, fuel >>

\* main.rs:328-440: one turn of `while let Ok(key) = rx.try_recv()`
CollectorRecv(ecdh_ok) ==
    /\ client_pc = "drain" /\ rx_alive
    /\ channel # << >>
    /\ channel' = Tail(channel)
    /\ LET key == Head(channel)
           valid == IF verify THEN validate_for_meshcore(public_bytes(key), ecdh_ok) ELSE TRUE
           count == found_count + 1
       IN  IF key \in known_keys \/ (verify /\ ~valid)
           THEN UNCHANGED << found_count, found_keys, known_keys, should_stop >>
           ELSE /\ found_count' = count
                /\ known_keys' = known_keys \cup {key}
                /\ found_keys' = Append(found_keys,
                                        [index |-> count, key |-> key,
                                         meshcore_valid |-> valid])
                /\ should_stop' = IF Len(found_keys') >= target_keys
                                  THEN TRUE ELSE should_stop
    /\ UNCHANGED << derive_vars, pool_vars, total_attempts, attempts_per_worker, gpu_counter,
                    threads, rx_alive, sent, client_pc, target_keys,
                    verify, fuel >>

\* main.rs:328: try_recv() finds the channel empty and the while loop ends
CollectorEmpty ==
    /\ client_pc = "drain" /\ rx_alive
    /\ channel = << >>
    /\ client_pc' = "check"
    /\ UNCHANGED << derive_vars, pool_vars, should_stop, total_attempts, attempts_per_worker,
                    gpu_counter, threads, channel, rx_alive, sent, collector_vars, fuel >>

\* main.rs:596-612: break when should_stop is set; store true and break
\* when the time limit has passed; otherwise sleep and loop
CollectorCheck(time_up) ==
    /\ client_pc = "check"
    /\ IF ShouldStopLoad
       THEN client_pc' = "stop_call" /\ UNCHANGED should_stop
       ELSE IF time_up
       THEN client_pc' = "stop_call" /\ should_stop' = TRUE
       ELSE client_pc' = "drain" /\ UNCHANGED should_stop
    /\ UNCHANGED << derive_vars, pool_vars, total_attempts, attempts_per_worker, gpu_counter,
                    threads, channel, rx_alive, sent, collector_vars, fuel >>

\* worker.rs:241: the client stores true itself before it calls stop()
ExternalStop ==
    /\ client_pc = "drain" /\ ~should_stop
    /\ should_stop' = TRUE
    /\ UNCHANGED << derive_vars, pool_vars, total_attempts, attempts_per_worker, gpu_counter,
                    threads, channel, rx_alive, sent, client_pc, collector_vars, fuel >>

\* the client drops the Receiver; the keys still in the channel go with it
DropReceiver ==
    /\ client_pc = "drain" /\ rx_alive
    /\ rx_alive' = FALSE
    /\ channel' = << >>
    /\ UNCHANGED << derive_vars, pool_vars, should_stop, total_attempts, attempts_per_worker,
                    gpu_counter, threads, sent, client_pc, collector_vars, fuel >>

ClientStep ==
    \/ EnableGpu
    \/ SetGpuAttempts
    \/ Start
    \/ StopBegin
    \/ StopJoin
    \/ StopReturn
    \/ \E ecdh_ok \in BOOLEAN : CollectorRecv(ecdh_ok)
    \/ CollectorEmpty
    \/ \E time_up \in BOOLEAN : CollectorCheck(time_up)
    \/ ExternalStop
    \/ DropReceiver

Next == ClientStep \/ \E t \in ThreadIds : ThreadStep(t)

Spec == Init /\ [][Next]_vars

(***************************************************************************)
(* Pool lifecycle.                                                         *)
(***************************************************************************)
Alive(t) == threads[t].pc # "done"

AliveCpu == {t \in ThreadIds : threads[t].kind = "cpu" /\ Alive(t)}

AliveGpu == {t \in ThreadIds : threads[t].kind = "gpu" /\ Alive(t)}

\* C1: after stop() returns, every thread start() has spawned has exited
\* and its handle has been joined (worker_handles is drained), and
\* should_stop reads true
C1_StopJoinsAll ==
    client_pc = "stopped" =>
        /\ should_stop
        /\ worker_handles = << >>
        /\ \A t \in ThreadIds : ~Alive(t)

\* C1 witness: stop() has returned on a pool whose start() spawned a CPU
\* worker and an accelerator worker, and a batch was run
C1_Witness ==
    /\ client_pc = "stopped"
    /\ \E t \in ThreadIds : threads[t].kind = "cpu"
    /\ \E t \in ThreadIds : threads[t].kind = "gpu"
    /\ total_attempts > 0

\* C3: once should_stop is true a worker adds at most one further batch to
\* the counters, and a worker that has loaded should_stop as true has left
\* its loop: it starts no batch after that
C3_OneMoreBatch ==
    \A t \in ThreadIds :
        /\ threads[t].post_stop <= 1
        /\ threads[t].observed => ~Alive(t)

\* C3 witness: a CPU worker and an accelerator worker each completed the
\* batch they were in when should_stop became true, then observed it
C3_Witness ==
    /\ \E t \in ThreadIds : /\ threads[t].kind = "cpu"
                            /\ threads[t].post_stop = 1 /\ threads[t].observed
    /\ \E t \in ThreadIds : /\ threads[t].kind = "gpu"
                            /\ threads[t].post_stop = 1 /\ threads[t].observed

\* C4: no step of a worker, of the collector loop or of stop() changes
\* should_stop from true back to false
C4_WriteOnceTrue == [][should_stop => should_stop']_vars

\* C4 witness: should_stop was set by the collector loop (target reached)
\* and stop() stored true over it, with workers running all along
C4_Witness ==
    /\ client_pc = "joining"
    /\ should_stop
    /\ found_keys # << >>
    /\ \E t \in ThreadIds : threads[t].post_stop = 1

\* C5: the number of CPU worker threads alive at once never exceeds
\* num_workers, and at most one accelerator worker is alive at once
C5_AtMostNWorkers ==
    /\ Cardinality(AliveCpu) <= num_workers
    /\ Cardinality(AliveGpu) <= 1

\* the per-worker counter thread t is about to add to, if any
WritesCounter(t) ==
    IF threads[t].kind = "cpu" /\ threads[t].pc = "add_worker"
    THEN {threads[t].worker_id}
    ELSE IF /\ threads[t].kind = "gpu" /\ threads[t].pc = "add_counter"
            /\ threads[t].counter = "Some"
    THEN {-1}
    ELSE {}

\* C6: no two workers running at once are both at an addition to the same
\* per-worker counter (the accelerator's counter included)
C6_SingleWriter ==
    \A t1, t2 \in ThreadIds :
        WritesCounter(t1) \cap WritesCounter(t2) # {} => t1 = t2

\* C7: every key in flight on the result channel, whichever worker sent
\* it, has a public key that matches_pattern_bytes accepts under the
\* pool's pattern_config
C7_SentKeysMatch ==
    \A n \in 1..Len(channel) :
        /\ ~matches_pattern_bytes_panics(public_bytes(channel[n]), pattern_config)
        /\ matches_pattern_bytes(public_bytes(channel[n]), pattern_config)

\* C7 witness: both kinds of worker have sent a key, one is in flight, and
\* some candidate the workers draw does not match
C7_Witness ==
    /\ sent = {"cpu", "gpu"}
    /\ channel # << >>
    /\ SomeKeyMisses

\* C8: a worker whose send failed has left its loop at that very step,
\* by a plain return (Ok(()) for the accelerator worker), neither by a
\* panic nor with an Err; and once stop() has returned its handle has been
\* joined like any other
C8_SilentExitOnClosedChannel ==
    \A t \in ThreadIds :
        threads[t].send_failed =>
            /\ ~Alive(t)
            /\ threads[t].exit = (IF threads[t].kind = "gpu" THEN "Ok" ELSE "returned")
            /\ client_pc = "stopped" => t \notin {worker_handles[n] : n \in DOMAIN worker_handles}

\* C8 witness: the Receiver was dropped, a send of a CPU worker and a send
\* of the accelerator worker failed, and a later stop() has returned
C8_Witness ==
    /\ ~rx_alive
    /\ client_pc = "stopped"
    /\ \E t \in ThreadIds : threads[t].kind = "cpu" /\ threads[t].send_failed
    /\ \E t \in ThreadIds : threads[t].kind = "gpu" /\ threads[t].send_failed

(***************************************************************************)
(* Attempt counters.                                                       *)
(***************************************************************************)
\* the sum of the per-worker counters
SumWorkers ==
    LET RECURSIVE S(_)
        S(n) == IF n = 0 THEN 0 ELSE attempts_per_worker[n - 1] + S(n - 1)
    IN  S(num_workers)

\* thread t has added its batch to total_attempts and not yet to its own
\* counter
BetweenAdditions(t) == threads[t].pc \in {"add_worker", "add_counter"}

\* an accelerator worker was started without a counter handle
\* (gpu_attempts was None at the spawn)
UnattachedGpu ==
    \E t \in ThreadIds : threads[t].kind = "gpu" /\ threads[t].counter = "None"

\* a step changes a counter by exactly one batch: BATCH_SIZE or
\* GPU_BATCH_SIZE for total_attempts, BATCH_SIZE for a per-worker counter,
\* GPU_BATCH_SIZE for the accelerator's counter
AddsOneBatch ==
    /\ total_attempts' # total_attempts =>
           total_attempts' - total_attempts \in {BATCH_SIZE, GPU_BATCH_SIZE}
    /\ \A w \in DOMAIN attempts_per_worker :
           attempts_per_worker'[w] # attempts_per_worker[w] =>
               attempts_per_worker'[w] - attempts_per_worker[w] = BATCH_SIZE
    /\ gpu_counter' # gpu_counter => gpu_counter' - gpu_counter = GPU_BATCH_SIZE

\* C9 as stated: the global counter equals the sum of the per-worker
\* counters plus the accelerator counter whenever no worker is between its
\* two additions
C9_EqualWheneverQuiet ==
    (\A t \in ThreadIds : ~BetweenAdditions(t)) =>
        total_attempts = SumWorkers + gpu_counter

\* C9, amended: every counter moves by exactly one batch at a time; the
\* global counter is at least the sum of the per-worker counters plus the
\* accelerator counter; and they are equal whenever no worker is between
\* its two additions and no accelerator worker runs without a counter handle
C9_CountersAgree ==
    /\ [][AddsOneBatch]_vars
    /\ [](total_attempts >= SumWorkers + gpu_counter)
    /\ []((/\ \A t \in ThreadIds : ~BetweenAdditions(t)
           /\ ~UnattachedGpu)
          => total_attempts = SumWorkers + gpu_counter)

\* C9 witness: stop() has returned after CPU workers and an accelerator
\* worker with its counter attached each added a batch to both counters
C9_Witness ==
    /\ client_pc = "stopped"
    /\ ~UnattachedGpu
    /\ gpu_counter = GPU_BATCH_SIZE
    /\ SumWorkers = BATCH_SIZE
    /\ total_attempts = BATCH_SIZE + GPU_BATCH_SIZE

(***************************************************************************)
(* Termination.  The operating system schedules every thread that can     *)
(* take a step (a batch and a dispatch are finite), and the client inside   *)
(* stop() goes on joining.                                                 *)
(***************************************************************************)
\* a pool of one CPU worker under the default pattern_config, with a
\* client that starts it, lets it run and stops it (worker.rs:254-272)
PoolInit == Init /\ num_workers = 1 /\ pattern_config.mode = "Pattern"

PoolNext ==
    \/ EnableGpu
    \/ SetGpuAttempts
    \/ Start
    \/ ExternalStop
    \/ DropReceiver
    \/ StopBegin
    \/ StopJoin
    \/ StopReturn
    \/ \E t \in ThreadIds : ThreadStep(t)

FairSpec ==
    /\ PoolInit
    /\ [][PoolNext]_vars
    /\ \A t \in 1..MaxThreads : WF_vars(t \in ThreadIds /\ ThreadStep(t))
    /\ WF_vars(StopJoin)
    /\ WF_vars(StopReturn)

AllExited == \A t \in ThreadIds : ~Alive(t)

\* C2: once should_stop is true every running worker eventually leaves its
\* loop, and a call of stop() eventually returns
C2_StopTerminates ==
    /\ should_stop ~> AllExited
    /\ (client_pc = "joining") ~> (client_pc = "stopped")

\* C2 witness: stop() has returned after joining a CPU worker and an
\* accelerator worker that were both in a batch when should_stop was set
C2_Witness ==
    /\ client_pc = "stopped"
    /\ AllExited
    /\ \E t \in ThreadIds : threads[t].kind = "cpu" /\ threads[t].post_stop = 1
    /\ \E t \in ThreadIds : threads[t].kind = "gpu" /\ threads[t].post_stop = 1

(***************************************************************************)
(* One seed through both derivation paths: calls of generate_from_seed on *)
(* the CPU (keygen.rs:71-98) and verify_key on what the last call returned *)
(* (keygen.rs:110-122), then one lane of the kernel generate_ed25519_keys  *)
(* from its seed on (metal_gpu.rs:470-494).  Each loop of either path      *)
(* advances one iteration per step.                                        *)
(***************************************************************************)
\* the pool stays as constructed, with no worker, while the seed is derived
ParityInit ==
    /\ WorkerPoolNew
    /\ known_keys = {}
    /\ num_workers = 0
    /\ pattern_config.mode = "Pattern"
    /\ target_keys = 1
    \* the seeds: the secret key of RFC 8032, 7.1, TEST 1 and the zero seed
    /\ seed \in { << 157, 97, 177, 157, 239, 253, 90, 96, 186, 132, 74, 244, 146,
                     236, 44, 196, 68, 73, 197, 105, 123, 50, 105, 25, 112, 59,
                     172, 3, 28, 174, 127, 96 >>,
                  [n \in 1..32 |-> 0] }
    /\ host = HostIdle
    /\ lane = LaneIdle
    /\ returned = << >>
    /\ verifier = VerifierIdle
    /\ db = << >>
    /\ accel = << >>
    /\ detected = << >>
    /\ call = CallNone

\* a clamp that leaves byte 31 as it is
clamp_scalar_low(scalar) ==
    (CHOOSE it \in {
        [n \in 1..32 |->
            IF n = 1 THEN Bitwise(<< 0, 0, 0, 1 >>, s[1], 248, 8) ELSE s[n]]
      : s \in { scalar } } : TRUE)

clamp_scalar(scalar) ==
    (CHOOSE it \in {
        [n \in 1..32 |->
            IF n = 1 THEN Bitwise(<< 0, 0, 0, 1 >>, s[1], 248, 8)
            ELSE IF n = 32
            THEN Bitwise(<< 0, 1, 1, 1 >>,
                         Bitwise(<< 0, 0, 0, 1 >>, s[32], 63, 8), 64, 8)
            ELSE s[n]]
      : s \in { scalar } } : TRUE)

\* a generate_from_seed that hashes what the previous call left in its frame
HostUpdateStale ==
    /\ \/ host.pc = "idle"
       \/ host.pc = "done" /\ Len(returned) < MaxCalls
    /\ host' = [host EXCEPT
                !.pc = "schedule", !.i = 16,
                !.W = Sha512Block(IF host.public_bytes = << >> THEN seed
                                  ELSE host.public_bytes)]
    /\ UNCHANGED << search_vars, db, accel, detected, call, seed, lane, returned, verifier >>

\* hasher.update(seed), in a frame that still holds what the previous call
\* left behind
HostUpdate ==
    \* the first call begins at once, a later one after the previous call
    \* has returned
    /\ \/ host.pc = "idle"
       \/ /\ host.pc = "done"
          /\ Len(returned) < MaxCalls
    /\ host' = [host EXCEPT !.pc = "schedule", !.i = 16, !.W = Sha512Block(seed)]
    /\ UNCHANGED << search_vars, db, accel, detected, call, seed, lane, returned, verifier >>

HostSchedule ==
    /\ host.pc = "schedule"
    /\ host' = [host EXCEPT !.W = Append(host.W, sha512_schedule(host.W, host.i)),
                            !.i = IF host.i = 79 THEN 0 ELSE host.i + 1,
                            !.v = IF host.i = 79 THEN H ELSE << >>,
                            !.pc = IF host.i = 79 THEN "rounds" ELSE "schedule"]
    /\ UNCHANGED << search_vars, db, accel, detected, call, seed, lane, returned, verifier >>

HostRound ==
    /\ host.pc = "rounds"
    /\ host' = [host EXCEPT !.v = sha512_round(host.v, host.W, host.i),
                            !.i = host.i + 1,
                            !.pc = IF host.i = 79 THEN "finalize" ELSE "rounds"]
    /\ UNCHANGED << search_vars, db, accel, detected, call, seed, lane, returned, verifier >>

\* hasher.finalize(), clamp_scalar, Scalar::from_bytes_mod_order: the base
\* point has the order the scalar is reduced by, so the product is that of
\* the clamped number
HostClamp ==
    /\ host.pc = "finalize"
    /\ host' = (CHOOSE it \in {
                   [host EXCEPT !.digest = digest,
                                !.clamped = clamp_scalar(SubSeq(digest, 1, 32)),
                                !.W = << >>, !.v = << >>,
                                !.Q = PointIdentity,
                                !.i = 255,
                                !.pc = "scalarmult"]
      : digest \in { sha512_output(host.v) } } : TRUE)
    /\ UNCHANGED << search_vars, db, accel, detected, call, seed, lane, returned, verifier >>

\* &scalar * ED25519_BASEPOINT_TABLE, one bit of the scalar per step
HostScalarmult ==
    /\ host.pc = "scalarmult"
    /\ LET bit == (host.clamped[host.i \div 8 + 1] \div 2^(host.i % 8)) % 2
       IN  host' = [host EXCEPT
                !.Q = (CHOOSE it \in {
                          IF bit = 1 THEN PointAdd(D, ED25519_BASEPOINT) ELSE D
                  : D \in { PointDouble(host.Q) } } : TRUE),
                !.i = IF host.i = 0 THEN 254 ELSE host.i - 1,
                !.e = IF host.i = 0 THEN FieldOfInt(1) ELSE << >>,
                !.pc = IF host.i = 0 THEN "invert" ELSE "scalarmult"]
    /\ UNCHANGED << search_vars, db, accel, detected, call, seed, lane, returned, verifier >>

\* compress(): 1/Z = Z^(p-2), one bit of p - 2 = 2^255 - 21 per step
HostInvert ==
    /\ host.pc = "invert"
    /\ host' = [host EXCEPT
                !.e = (CHOOSE it \in {
                          IF host.i \in {2, 4} THEN s
                          ELSE FieldMul(s, host.Q.Z)
                  : s \in { FieldMul(host.e, host.e) } } : TRUE),
                !.i = IF host.i = 0 THEN 0 ELSE host.i - 1,
                !.pc = IF host.i = 0 THEN "compress" ELSE "invert"]
    /\ UNCHANGED << search_vars, db, accel, detected, call, seed, lane, returned, verifier >>

\* a KeyInfo whose private_bytes are the digest as hashed, not clamped
HostCompressRawDigest ==
    /\ host.pc = "compress"
    /\ \E key_info \in
           { [public_bytes |-> PointBytes(FieldMul(host.Q.X, host.e),
                                          FieldMul(host.Q.Y, host.e)),
              private_bytes |-> host.digest] } :
           /\ host' = [host EXCEPT !.public_bytes = key_info.public_bytes,
                                   !.private_bytes = key_info.private_bytes,
                                   !.pc = "done"]
           /\ returned' = Append(returned, key_info)
    /\ UNCHANGED << search_vars, db, accel, detected, call, seed, lane, verifier >>

\* public_point.compress().to_bytes(), private_bytes and the KeyInfo
HostCompress ==
    /\ host.pc = "compress"
    /\ \E key_info \in
           { [public_bytes |-> PointBytes(FieldMul(host.Q.X, host.e),
                                          FieldMul(host.Q.Y, host.e)),
              private_bytes |-> host.clamped \o SubSeq(host.digest, 33, 64)] } :
           /\ host' = [host EXCEPT !.public_bytes = key_info.public_bytes,
                                   !.private_bytes = key_info.private_bytes,
                                   !.pc = "done"]
           /\ returned' = Append(returned, key_info)
    /\ UNCHANGED << search_vars, db, accel, detected, call, seed, lane, verifier >>

generate_from_seed ==
    \/ HostUpdate
    \/ HostSchedule
    \/ HostRound
    \/ HostClamp
    \/ HostScalarmult
    \/ HostInvert
    \/ HostCompress

\* the lane starts once the CPU path is through with the seed (the two
\* paths share no state, so their steps are not interleaved)
KernelHashInput ==
    /\ verifier.pc = "done"
    /\ lane.pc = "idle"
    /\ lane' = [lane EXCEPT !.pc = "schedule", !.i = 16,
                            !.W = sha512_32bytes_block(seed)]
    /\ UNCHANGED << search_vars, db, accel, detected, call, seed, host, returned, verifier >>

KernelSchedule ==
    /\ lane.pc = "schedule"
    /\ lane' = [lane EXCEPT !.W = Append(lane.W, sha512_schedule(lane.W, lane.i)),
                            !.i = IF lane.i = 79 THEN 0 ELSE lane.i + 1,
                            !.v = IF lane.i = 79 THEN H ELSE << >>,
                            !.pc = IF lane.i = 79 THEN "rounds" ELSE "schedule"]
    /\ UNCHANGED << search_vars, db, accel, detected, call, seed, host, returned, verifier >>

KernelRound ==
    /\ lane.pc = "rounds"
    /\ lane' = [lane EXCEPT !.v = sha512_round(lane.v, lane.W, lane.i),
                            !.i = lane.i + 1,
                            !.pc = IF lane.i = 79 THEN "clamp" ELSE "rounds"]
    /\ UNCHANGED << search_vars, db, accel, detected, call, seed, host, returned, verifier >>

KernelClamp ==
    /\ lane.pc = "clamp"
    /\ lane' = (CHOOSE it \in {
                   [lane EXCEPT
                       !.hash = hash,
                       !.scalar = [n \in 1..32 |->
                           IF n = 1 THEN Bitwise(<< 0, 0, 0, 1 >>, hash[1], 248, 8)
                           ELSE IF n = 32
                           THEN Bitwise(<< 0, 1, 1, 1 >>,
                                        Bitwise(<< 0, 0, 0, 1 >>, hash[32], 63, 8),
                                        64, 8)
                           ELSE hash[n]],
                       !.W = << >>, !.v = << >>,
                       !.result = ge_zero, !.temp = ge_base,
                       !.i = 0, !.pc = "ge_scalarmult"]
      : hash \in { sha512_output(lane.v) } } : TRUE)
    /\ UNCHANGED << search_vars, db, accel, detected, call, seed, host, returned, verifier >>

KernelScalarmult ==
    /\ lane.pc = "ge_scalarmult"
    /\ LET bit == Bitwise(<< 0, 0, 0, 1 >>,
                          lane.scalar[lane.i \div 8 + 1] \div 2^(lane.i % 8), 1, 8)
       IN  lane' = (CHOOSE it \in {
                   [lane EXCEPT
                       !.result = result,
                       !.temp = ge_double(lane.temp),
                       !.i = IF lane.i = 255 THEN 0 ELSE lane.i + 1,
                       !.stmt = IF lane.i = 255 THEN 1 ELSE 0,
                       !.regs = IF lane.i = 255
                                THEN [a |-> result.Z, t0 |-> fe_zero,
                                      t1 |-> fe_zero, t2 |-> fe_zero,
                                      t3 |-> fe_zero, recip |-> fe_zero,
                                      sq |-> fe_zero]
                                ELSE << >>,
                       !.pc = IF lane.i = 255 THEN "fe_inv"
                              ELSE "ge_scalarmult"]
         : result \in { IF bit = 1 THEN ge_add(lane.result, lane.temp) ELSE lane.result } } : TRUE)
    /\ UNCHANGED << search_vars, db, accel, detected, call, seed, host, returned, verifier >>

\* one statement of fe_inv, or one squaring of its fe_sq_n
KernelInv ==
    /\ lane.pc = "fe_inv"
    /\ LET s == fe_inv[lane.stmt]
           regs == lane.regs
           sq == fe_sq(IF lane.i = 0 THEN regs[s.x] ELSE regs.sq)
           finished == s.op = "fe_mul" \/ lane.i + 1 = s.n
       IN  lane' = [lane EXCEPT
                !.regs = IF s.op = "fe_mul"
                         THEN [regs EXCEPT ![s.r] = fe_mul(regs[s.x], regs[s.y])]
                         ELSE IF finished THEN [regs EXCEPT ![s.r] = sq]
                         ELSE [regs EXCEPT !.sq = sq],
                !.i = IF finished THEN 0 ELSE lane.i + 1,
                !.stmt = IF finished THEN lane.stmt + 1 ELSE lane.stmt,
                !.pc = IF finished /\ lane.stmt = Len(fe_inv) THEN "ge_to_bytes"
                       ELSE "fe_inv"]
    /\ UNCHANGED << search_vars, db, accel, detected, call, seed, host, returned, verifier >>

KernelWrite ==
    /\ lane.pc = "ge_to_bytes"
    /\ LET x == fe_mul(lane.result.X, lane.regs.recip)
           y == fe_mul(lane.result.Y, lane.regs.recip)
       IN  lane' = [lane EXCEPT
                !.public_key = (CHOOSE it \in {
                        [n \in 1..32 |->
                            IF n = 32
                            THEN Bitwise(<< 0, 1, 1, 1 >>, s[32],
                                     Bitwise(<< 0, 0, 0, 1 >>, x_bytes[1], 1, 8)
                                         * 2^7, 8)
                            ELSE s[n]]
                  : s \in { fe_to_bytes(y) }, x_bytes \in { fe_to_bytes(x) } } : TRUE),
                !.private_key = lane.scalar \o SubSeq(lane.hash, 33, 64),
                !.pc = "done"]
    /\ UNCHANGED << search_vars, db, accel, detected, call, seed, host, returned, verifier >>

generate_ed25519_keys ==
    \/ KernelHashInput
    \/ KernelSchedule
    \/ KernelRound
    \/ KernelClamp
    \/ KernelScalarmult
    \/ KernelInv
    \/ KernelWrite

\* verify_key(key_info) on the KeyInfo of the last call, once the calls are
\* over: clamped.copy_from_slice(&key_info.private_bytes[..32])
VerifyBegin ==
    /\ verifier.pc = "idle"
    /\ host.pc = "done"
    /\ Len(returned) = MaxCalls
    /\ verifier' = (CHOOSE it \in {
                       [verifier EXCEPT
                           !.key_info = key_info,
                           !.clamped = SubSeq(key_info.private_bytes, 1, 32),
                           !.Q = PointIdentity,
                           !.i = 255,
                           !.pc = "scalarmult"]
      : key_info \in { returned[Len(returned)] } } : TRUE)
    /\ UNCHANGED << search_vars, db, accel, detected, call, seed, host, lane, returned >>

\* &scalar * ED25519_BASEPOINT_TABLE, one bit of the scalar per step
VerifyScalarmult ==
    /\ verifier.pc = "scalarmult"
    /\ LET bit == (verifier.clamped[verifier.i \div 8 + 1]
                      \div 2^(verifier.i % 8)) % 2
       IN  verifier' = [verifier EXCEPT
                !.Q = (CHOOSE it \in {
                          IF bit = 1 THEN PointAdd(D, ED25519_BASEPOINT) ELSE D
                  : D \in { PointDouble(verifier.Q) } } : TRUE),
                !.i = IF verifier.i = 0 THEN 254 ELSE verifier.i - 1,
                !.e = IF verifier.i = 0 THEN FieldOfInt(1) ELSE << >>,
                !.pc = IF verifier.i = 0 THEN "invert" ELSE "scalarmult"]
    /\ UNCHANGED << search_vars, db, accel, detected, call, seed, host, lane, returned >>

\* compress(): 1/Z = Z^(p-2), one bit of p - 2 per step
VerifyInvert ==
    /\ verifier.pc = "invert"
    /\ verifier' = [verifier EXCEPT
                !.e = (CHOOSE it \in {
                          IF verifier.i \in {2, 4} THEN s
                          ELSE FieldMul(s, verifier.Q.Z)
                  : s \in { FieldMul(verifier.e, verifier.e) } } : TRUE),
                !.i = IF verifier.i = 0 THEN 0 ELSE verifier.i - 1,
                !.pc = IF verifier.i = 0 THEN "compare" ELSE "invert"]
    /\ UNCHANGED << search_vars, db, accel, detected, call, seed, host, lane, returned >>

\* derived_public == key_info.public_bytes
VerifyCompare ==
    /\ verifier.pc = "compare"
    /\ verifier' = [verifier EXCEPT
                !.result = (PointBytes(FieldMul(verifier.Q.X, verifier.e),
                                       FieldMul(verifier.Q.Y, verifier.e))
                            = verifier.key_info.public_bytes),
                !.pc = "done"]
    /\ UNCHANGED << search_vars, db, accel, detected, call, seed, host, lane, returned >>

verify_key ==
    \/ VerifyBegin
    \/ VerifyScalarmult
    \/ VerifyInvert
    \/ VerifyCompare

ParityNext == generate_from_seed \/ generate_ed25519_keys \/ verify_key

ParitySpec == ParityInit /\ [][ParityNext]_vars

\* C10: for every seed the kernel's pipeline produces the same 32-byte
\* public key and the same 64-byte private key as generate_from_seed
C10_Parity ==
    (host.pc = "done" /\ lane.pc = "done")
        => /\ lane.public_key = host.public_bytes
           /\ lane.private_key = host.private_bytes


C12_VerifyKey ==
    verifier.pc = "done" => verifier.result

\* C12 witness: verify_key has recomputed the public key of a returned
\* KeyInfo from private_bytes[0..32] and returned true
C12_Witness ==
    /\ verifier.pc = "done"
    /\ verifier.result
    /\ verifier.key_info \in { returned[n] : n \in 1..Len(returned) }

\* private is digest with the three low bits of byte 0 cleared, bit 7 of
\* byte 31 cleared, bit 6 of byte 31 set and every other bit as it was
ClampedFrom(private, digest) ==
    /\ private[1] % 8 = 0
    /\ private[1] \div 8 = digest[1] \div 8
    /\ private[32] \div 64 = 1
    /\ private[32] % 64 = digest[32] % 64
    /\ \A n \in 2..31 : private[n] = digest[n]

\* C13: on the CPU path and in the kernel, privateKey[0] & 7 = 0,
\* privateKey[31] & 0xC0 = 0x40, and no other bit of the first 32 digest
\* bytes is changed
C13_Clamping ==
    /\ host.pc = "done" => ClampedFrom(host.private_bytes, host.digest)
    /\ lane.pc = "done" => ClampedFrom(lane.private_key, lane.hash)

\* C13 witness: both paths have finished on a digest whose byte 0 had low
\* bits set and whose byte 31 did not have its top bits at 01
C13_Witness ==
    /\ lane.pc = "done"
    /\ Len(returned) >= 1
    /\ host.digest[1] % 8 # 0
    /\ host.digest[32] \div 64 # 1
    /\ lane.hash = host.digest
    /\ ClampedFrom(lane.private_key, lane.hash)
    /\ host.pc = "done"
    /\ ClampedFrom(host.private_bytes, host.digest)


(***************************************************************************)
(* The matcher as a function: one call of matches_pattern_bytes            *)
(* (pattern.rs:154-176) on a key and a configuration build_pattern_config  *)
(* (main.rs:670-693) can hand it, or one a test of pattern.rs writes.      *)
(***************************************************************************)
\* the pool stays as constructed; the call has its arguments.
\* The prefixes: "", "AB", "ab", "aB", "A", "ABC", "abc", "abcd", "AG", "g",
\* "FF", "12", sixty-four and sixty-five times "0".
\* The configurations: every prefix, every length --vanity and --pattern
\* accept, and the prefixes of at most two characters with every length
MatchInit ==
    /\ WorkerPoolNew
    /\ known_keys = {}
    /\ num_workers = 0
    /\ pattern_config.mode = "Pattern"
    /\ target_keys = 1
    /\ seed = << >>
    /\ host = HostIdle
    /\ lane = LaneIdle
    /\ returned = << >>
    /\ verifier = VerifierIdle
    /\ db = << >>
    /\ accel = << >>
    /\ detected = << >>
    /\ LET \* public keys given to the matcher
           MatchKeys ==
               { SampleKeys[k] : k \in Keys } \cup
               { \* thirty-two zero bytes
                 [k \in 1..32 |-> 0],
                 \* 12 34 56 78 .. 78 56 34 12: the last four bytes are the first four
                 \* in reverse byte order
                 MkKey(<<18, 52, 86, 120>>, <<120, 86, 52, 18>>),
                 \* 11 22 33 44 .. 44 33 22 11: the same, each byte its own nibble swap
                 MkKey(<<17, 34, 51, 68>>, <<68, 51, 34, 17>>),
                 \* 1A .. A1: the outer bytes are nibble swaps, nothing else mirrors
                 MkKey(<<26, 1, 2, 3>>, <<9, 9, 9, 161>>),
                 \* AB CD 00 00 .. 00 00 AB CD: the outer two bytes are equal
                 MkKey(<<171, 205, 0, 0>>, <<0, 0, 171, 205>>),
                 \* AB CD 12 .. 21 DC BA: three bytes mirror nibble by nibble
                 MkKey(<<171, 205, 18, 0>>, <<1, 33, 220, 186>>),
                 \* AB C0 .. 0A BC: the first three hex digits are the last three
                 MkKey(<<171, 192, 0, 0>>, <<0, 0, 10, 188>>) } \cup
               \* every choice of four bytes from 0x12 and 0x33, followed at the end of
               \* the key by the same bytes in reverse order
               { MkKey(f, Rev(f)) : f \in [1..4 -> {18, 51}] } \cup
               \* and by the same nibbles in reverse order
               { MkKey(f, [k \in 1..4 |-> LoNibble(f[5 - k]) * 16 + HiNibble(f[5 - k])]) :
                   f \in [1..4 -> {18, 51}] }
           MatchPrefixes ==
               { << >>, <<65, 66>>, <<97, 98>>, <<97, 66>>, <<65>>, <<65, 66, 67>>,
                 <<97, 98, 99>>, <<97, 98, 99, 100>>, <<65, 71>>, <<103>>, <<70, 70>>,
                 <<49, 50>>, [k \in 1..64 |-> 48], [k \in 1..65 |-> 48] }
           MatchConfigs ==
               { PatternConfig("Any", FALSE, << >>, MaxVanity) }
               \cup { PatternConfig("Prefix", TRUE, p, MaxVanity) : p \in MatchPrefixes }
               \cup { PatternConfig(m, FALSE, << >>, n) :
                         m \in {"Vanity", "Pattern"}, n \in MinVanity..MaxVanity }
               \cup { PatternConfig("PrefixVanity", TRUE, p, n) :
                         p \in { q \in MatchPrefixes : Len(q) <= 2 },
                         n \in MinVanity..MaxVanity }
       IN  call \in { [CallNone EXCEPT !.pc = "called", !.public_bytes = k,
                                       !.config = c] :
                        k \in MatchKeys, c \in MatchConfigs }

\* pattern.rs:154-176: the call returns true or false, or panics
CallMatchesPatternBytes ==
    /\ call.pc = "called"
    /\ call' = [call EXCEPT
                  !.pc = "returned",
                  !.outcome =
                      IF matches_pattern_bytes_panics(call.public_bytes, call.config)
                      THEN "panic"
                      ELSE IF matches_pattern_bytes(call.public_bytes, call.config)
                           THEN "true" ELSE "false"]
    /\ UNCHANGED << search_vars, db, accel, detected, seed, host, lane, returned, verifier >>

\* keygen.rs:137-194 on the key, whatever its private half makes of the
\* ECDH cross-check
CallValidateForMeshcore(ecdh_ok) ==
    /\ call.pc = "returned"
    /\ call.valid = "none"
    /\ call' = [call EXCEPT
                  !.ecdh_ok = ecdh_ok,
                  !.valid = IF validate_for_meshcore(call.public_bytes, ecdh_ok)
                            THEN "true" ELSE "false"]
    /\ UNCHANGED << search_vars, db, accel, detected, seed, host, lane, returned, verifier >>

\* keygen.rs:225-227 on the key
CallIsValidMeshcorePrefix ==
    /\ call.pc = "returned"
    /\ call.prefix_ok = "none"
    /\ call' = [call EXCEPT
                  !.prefix_ok = IF is_valid_meshcore_prefix(call.public_bytes)
                                THEN "true" ELSE "false"]
    /\ UNCHANGED << search_vars, db, accel, detected, seed, host, lane, returned, verifier >>

\* pattern.rs:122-147 on the key's hex string, as KeyInfo.public_hex has it
CallMatchesPattern ==
    /\ call.pc # "none"
    /\ call.hex_outcome = "none"
    /\ call' = [call EXCEPT
                  !.hex_outcome =
                      IF matches_pattern(hex_encode(call.public_bytes), call.config)
                      THEN "true" ELSE "false"]
    /\ UNCHANGED << search_vars, db, accel, detected, seed, host, lane, returned, verifier >>

MatchNext ==
    \/ CallMatchesPatternBytes
    \/ CallMatchesPattern
    \/ \E ecdh_ok \in BOOLEAN : CallValidateForMeshcore(ecdh_ok)
    \/ CallIsValidMeshcorePrefix

MatchSpec == MatchInit /\ [][MatchNext]_vars

\* nibble j of a byte sequence, counted from 0, the high nibble of a byte first
NibbleAt(bytes, j) ==
    IF j % 2 = 0 THEN bytes[j \div 2 + 1] \div 16 ELSE bytes[(j - 1) \div 2 + 1] % 16

\* Mirror(n) as the specification words it, on the first and last
\* ceil(n/2) bytes of the key
Mirror(key, n) ==
    LET k == (n + 1) \div 2
        first == SubSeq(key, 1, k)
        last == SubSeq(key, 32 - k + 1, 32)
    IN  \/ first = last
        \/ \A j \in 0..(2 * k - 1) : NibbleAt(last, j) = NibbleAt(first, 2 * k - 1 - j)

ByteReversed(key) == \A i \in 0..3 : key[32 - i] = key[i + 1]

\* for i = 0..3, byte 31-i of the key is byte i with its two nibbles swapped
NibbleReversed(key) ==
    \A i \in 0..3 : /\ key[32 - i] \div 16 = key[i + 1] % 16
                    /\ key[32 - i] % 16 = key[i + 1] \div 16

\* C15, as the program has it: a key whose last four bytes are the first
\* four nibble-reversed matches Mirror(8); a key whose last four bytes are
\* the first four byte-reversed matches Mirror(8) only if its first four
\* bytes equal its last four or each of them has two equal nibbles
C15_NibbleReverse ==
    (/\ call.pc = "returned"
     /\ call.config.mode \in {"Vanity", "Pattern"}
     /\ call.config.vanity_length = 8)
        => /\ NibbleReversed(call.public_bytes) => call.outcome = "true"
           /\ ByteReversed(call.public_bytes)
                => (call.outcome = "true"
                      <=> \/ SubSeq(call.public_bytes, 1, 4) = SubSeq(call.public_bytes, 29, 32)
                          \/ \A i \in 1..4 : call.public_bytes[i] \div 16
                                               = call.public_bytes[i] % 16)

\* C15: Mirror(8) returned true on a nibble-reversed key whose first four
\* bytes are neither its last four nor their byte-reverse
C15_Witness ==
    /\ call.pc = "returned"
    /\ call.config.mode = "Pattern"
    /\ call.config.vanity_length = 8
    /\ NibbleReversed(call.public_bytes)
    /\ ~ByteReversed(call.public_bytes)
    /\ SubSeq(call.public_bytes, 1, 4) # SubSeq(call.public_bytes, 29, 32)
    /\ call.outcome = "true"

\* C15, as stated: every key whose first four bytes are the byte-reverse of
\* its last four matches Mirror(8)
C15_ByteReverse ==
    (/\ call.pc = "returned"
     /\ call.config.mode \in {"Vanity", "Pattern"}
     /\ call.config.vanity_length = 8
     /\ ByteReversed(call.public_bytes))
        => call.outcome = "true"

\* the characters "0123456789ABCDEF" and "0123456789abcdef"
UpperDigits == << 48, 49, 50, 51, 52, 53, 54, 55, 56, 57, 65, 66, 67, 68, 69, 70 >>
LowerDigits == << 48, 49, 50, 51, 52, 53, 54, 55, 56, 57, 97, 98, 99, 100, 101, 102 >>

\* character c is the hex digit of value v, in either case
IsDigitOf(c, v) == UpperDigits[v + 1] = c \/ LowerDigits[v + 1] = c

\* Prefix(p) as the specification words it: every p[i] is the digit of
\* nibble i of the key, and the key has 64 nibbles
Prefix(key, p) ==
    \A i \in 0..(Len(p) - 1) : i < 64 /\ IsDigitOf(p[i + 1], NibbleAt(key, i))

\* C16: in Prefix mode with prefix p, matches_pattern_bytes returns true
\* exactly when every character p[i] is a hex digit, in either case, whose
\* value is nibble i of the key; so it returns false on a mismatch, on a
\* character that is no hex digit, and on a prefix of more than 64 digits
C16_Prefix ==
    (call.pc = "returned" /\ call.config.mode = "Prefix" /\ call.config.has_prefix)
        => /\ call.outcome \in {"true", "false"}
           /\ call.outcome = "true" <=> Prefix(call.public_bytes, call.config.prefix)

\* C16: a prefix of three characters, the lower-case "abc" among them,
\* matched a key on the high nibble of its second byte
C16_Witness ==
    /\ call.pc = "returned"
    /\ call.config.mode = "Prefix"
    /\ Len(call.config.prefix) = 3
    /\ call.config.prefix[1] >= 97
    /\ call.outcome = "true"

\* C17: in PrefixVanity mode with prefix p and length n, matches_pattern_bytes
\* returns true exactly when the key matches Prefix(p) and matches Mirror(n)
C17_Conjunction ==
    (call.pc = "returned" /\ call.config.mode = "PrefixVanity" /\ call.config.has_prefix)
        => call.outcome =
              (IF /\ Prefix(call.public_bytes, call.config.prefix)
                  /\ Mirror(call.public_bytes, call.config.vanity_length)
               THEN "true" ELSE "false")

\* C17: a key that matches Mirror(n) but not the prefix was turned down
C17_Witness ==
    /\ call.pc = "returned"
    /\ call.config.mode = "PrefixVanity"
    /\ call.config.has_prefix
    /\ Mirror(call.public_bytes, call.config.vanity_length)
    /\ ~Prefix(call.public_bytes, call.config.prefix)
    /\ call.outcome = "false"

(***************************************************************************)
(* Validation.                                                             *)
(***************************************************************************)
\* the first byte of the public key is 0x00 or 0xFF
ReservedFirstByte(key) == key[1] = 0 \/ key[1] = 255

\* C18: validate_for_meshcore returns valid = false for every key whose
\* public key starts with 0x00 or 0xFF, whatever the ECDH cross-check makes
\* of the key, and is_valid_meshcore_prefix is false for exactly those keys
C18_ReservedPrefix ==
    /\ (call.valid # "none" /\ ReservedFirstByte(call.public_bytes))
          => call.valid = "false"
    /\ call.prefix_ok # "none"
          => (call.prefix_ok = "false" <=> ReservedFirstByte(call.public_bytes))

\* C18: a key starting with 0x00 on which the ECDH cross-check succeeds was
\* found invalid by both functions
C18_Witness ==
    /\ call.public_bytes # << >>
    /\ call.public_bytes[1] = 0
    /\ call.ecdh_ok
    /\ call.valid = "false"
    /\ call.prefix_ok = "false"

\* C19: with verification on, every key the collector has accepted was
\* reported with meshcore_valid = true and has no reserved first byte; and
\* a turn of the drain loop that receives a candidate with a reserved first
\* byte, which validate_for_meshcore turns down, leaves the count, the
\* accepted keys, the known keys and should_stop as they were and stays in
\* the drain loop
C19_InvalidDiscarded ==
    /\ [](verify =>
            \A n \in 1..Len(found_keys) :
                /\ found_keys[n].meshcore_valid
                /\ is_valid_meshcore_prefix(public_bytes(found_keys[n].key)))
    /\ [][(/\ verify
           /\ client_pc = "drain" /\ rx_alive'
           /\ channel # << >> /\ channel' = Tail(channel)
           /\ ~is_valid_meshcore_prefix(public_bytes(Head(channel))))
             => /\ UNCHANGED << found_count, found_keys, known_keys, should_stop >>
                /\ client_pc' = "drain"]_vars

\* C19: a worker has sent a candidate, the collector has taken it off the
\* channel and accepted nothing, and it still drains while the workers
\* still search
C19_Witness ==
    /\ verify
    /\ sent # {}
    /\ rx_alive /\ channel = << >>
    /\ found_count = 0 /\ found_keys = << >> /\ known_keys = {}
    /\ client_pc = "drain"
    /\ ~should_stop
    /\ \E t \in ThreadIds : Alive(t)

\* C20: the number of keys the collector has accepted (counted, saved and
\* reported) never exceeds target_keys
C20_AtMostTarget ==
    /\ Len(found_keys) <= target_keys
    /\ found_count <= target_keys

(***************************************************************************)
(* The accelerator loop.                                                   *)
(***************************************************************************)
\* C21: a dispatch of the accelerator worker that ends in Error leaves the
\* worker running at the top of its loop with no candidate read, nothing
\* sent and nothing added to the attempt counters; from the top of the loop
\* the worker goes on to a new dispatch if should_stop is false and returns
\* Ok(()) if it is true
C21_ErrorRetried ==
    [][\A t \in DOMAIN threads :
          threads[t].kind = "gpu" =>
            /\ (threads[t].pc = "dispatch" /\ threads'[t].pc \notin {"dispatch", "scan"})
                  => /\ threads'[t].pc = "top"
                     /\ threads'[t].exit = "running"
                     /\ threads'[t].i = 0
                     /\ UNCHANGED << channel, sent, total_attempts, gpu_counter,
                                     attempts_per_worker >>
            /\ (threads[t].pc = "top" /\ threads'[t].pc # "top")
                  => \/ ~should_stop /\ threads'[t].pc = "dispatch"
                     \/ should_stop /\ threads'[t].pc = "done" /\ threads'[t].exit = "Ok"
      ]_vars

\* C21: the accelerator worker reads the results of its second dispatch
\* and no attempt has been counted, so its first dispatch ended in Error
C21_Witness ==
    /\ total_attempts = 0 /\ gpu_counter = 0 /\ sent = {}
    /\ \E t \in DOMAIN threads :
          /\ threads[t].kind = "gpu"
          /\ threads[t].batch_number = 2
          /\ threads[t].pc = "scan"

(***************************************************************************)
(* main.rs:696-758: detect_cpu_cores on one machine.  A machine is its     *)
(* build (macos or not), num_cpus::get() and, on macOS, what the two       *)
(* sysctl calls print: perflevel0 and perflevel1 are the numbers parsed,   *)
(* -1 where the call or the parse fails (no such key on an Intel Mac).     *)
(***************************************************************************)
detect_cpu_cores(machine, brutal, powersave) ==
    LET cores == machine.num_cpus
        \* (cores as f64 * 0.75).round(): halves round away from zero
        rounded == (3 * cores + 2) \div 4
        fallback == IF 2 >= rounded THEN 2 ELSE rounded
    IN  IF brutal
        THEN IF 1 >= cores - 1 THEN 1 ELSE cores - 1
        ELSE IF powersave
        THEN IF machine.macos /\ machine.perflevel1 > 0
             THEN machine.perflevel1
             ELSE IF 1 >= cores \div 2 THEN 1 ELSE cores \div 2
        ELSE IF machine.macos /\ machine.perflevel0 >= 0
             THEN machine.perflevel0
             ELSE fallback

\* any build on 1..MaxCores cores; on macOS either no perflevel keys or
\* performance and efficiency cores that add up to the cores
CoresInit ==
    /\ WorkerPoolNew
    /\ known_keys = {}
    /\ num_workers = 0
    /\ pattern_config.mode = "Pattern"
    /\ target_keys = 1
    /\ seed = << >>
    /\ host = HostIdle
    /\ lane = LaneIdle
    /\ returned = << >>
    /\ verifier = VerifierIdle
    /\ db = << >>
    /\ accel = << >>
    /\ call = CallNone
    /\ \E c \in 1..MaxCores, macos \in BOOLEAN, p0 \in -1..MaxCores :
          /\ p0 <= c
          /\ ~macos => p0 = -1
          /\ p0 # 0
          /\ detected = [machine |-> [macos |-> macos, num_cpus |-> c,
                                      perflevel0 |-> p0,
                                      perflevel1 |-> IF p0 = -1 THEN -1 ELSE c - p0],
                         result |-> [mode \in BOOLEAN \X BOOLEAN |-> 0]]

\* one call detect_cpu_cores(brutal, powersave); a result is at least 1
CallDetectCpuCores(brutal, powersave) ==
    /\ detected.result[<< brutal, powersave >>] = 0
    /\ detected' = [detected EXCEPT !.result[<< brutal, powersave >>] =
                      detect_cpu_cores(detected.machine, brutal, powersave)]
    /\ UNCHANGED << search_vars, db, accel, seed, host, lane, returned, verifier, call >>

CoresSpec ==
    CoresInit /\ [][\E brutal \in BOOLEAN, powersave \in BOOLEAN :
                       CallDetectCpuCores(brutal, powersave)]_vars

\* C22: on every machine the count of brutal mode is at least the count
\* of normal mode, the count of powersave mode is at least 1 and at most
\* the count of normal mode, and with both flags the count is that of
\* brutal mode
C22_CoreCounts ==
    LET normal == detected.result[<< FALSE, FALSE >>]
        brutal == detected.result[<< TRUE, FALSE >>]
        powersave == detected.result[<< FALSE, TRUE >>]
        both == detected.result[<< TRUE, TRUE >>]
    IN  /\ (normal # 0 /\ brutal # 0) => brutal >= normal
        /\ (normal # 0 /\ powersave # 0) => (powersave >= 1 /\ powersave <= normal)
        /\ (both # 0 /\ brutal # 0) => both = brutal

(***************************************************************************)
(* The accelerator loop step by step (metal_gpu.rs:563-657) and the seeds  *)
(* the lanes of a dispatch derive (metal_gpu.rs:449-468).  A uint of the   *)
(* shader and a u32 of the host is a word whose top 32 bits are zero.      *)
(* History only: random_writes, commits and completed count the writes of  *)
(* the random buffer, the commits and the dispatches that have finished,   *)
(* reads the scans of the output buffers.                                  *)
(***************************************************************************)
\* the low 32 bits
Mask32(a) == and64(a, U64(0, 0, 65535, 65535))

\* metal_gpu.rs:460-464: eight steps of xorshift128, each appending the
\* four bytes of state3, lowest first
RECURSIVE xorshift128(_, _)
xorshift128(state, n) ==
    IF n = 0 THEN << >>
    ELSE (CHOOSE it \in {
            << Field(state3, 13, 0, 8), Field(state3, 13, 8, 8),
               Field(state3, 13, 16, 8), Field(state3, 13, 24, 8) >>
              \o xorshift128(<< state[2], state[3], state[4], state3 >>, n - 1)
          : state3 \in { xor64(xor64(state[4], shr64(state[4], 19)),
                               xor64(t, shr64(t, 8)))
                         : t \in { xor64(state[1], Mask32(shl64(state[1], 11))) } }
          } : TRUE)

\* a lane whose four states leave out the global id
lane_seed_shared(random_state, batch_offset, id) ==
    xorshift128(random_state, 8)

\* metal_gpu.rs:449-468: the seed of the lane at position id of the grid
lane_seed(random_state, batch_offset, id) ==
    (CHOOSE it \in {
        xorshift128(<< xor64(random_state[1], Mask32(mul64(global_id, U64(0, 0, 40503, 31153)))),
                       xor64(random_state[2], Mask32(mul64(global_id, U64(0, 0, 34283, 51831)))),
                       xor64(random_state[3], Mask32(mul64(global_id, U64(0, 0, 49842, 44605)))),
                       xor64(random_state[4], Mask32(mul64(global_id, U64(0, 0, 10196, 60207)))) >>,
                    8)
      : global_id \in { Mask32(add64(Word(id), batch_offset)) } } : TRUE)

\* the positions of the grid whose lanes are followed
LaneIds == {0, 1, 2, 3, 65536, GPU_BATCH_SIZE - 1}

\* the loop at its top after 0, 16383 or 16384 dispatches (the offset of
\* dispatch 16384 has wrapped to 0)
DispatchInit ==
    /\ WorkerPoolNew
    /\ known_keys = {}
    /\ num_workers = 0
    /\ pattern_config.mode = "Pattern"
    /\ target_keys = 1
    /\ seed = << >>
    /\ host = HostIdle
    /\ lane = LaneIdle
    /\ returned = << >>
    /\ verifier = VerifierIdle
    /\ db = << >>
    /\ detected = << >>
    /\ call = CallNone
    /\ \E b \in {0, 16383, 16384} :
          accel = [pc |-> "top", should_stop |-> FALSE, batch_number |-> b,
                   random_state |-> << >>, offset |-> Word(0),
                   random_writes |-> b, commits |-> b, completed |-> b,
                   in_flight |-> FALSE, seeds |-> << >>, reads |-> 0,
                   fuel |-> MaxDispatches]

AccelUnchanged == UNCHANGED << search_vars, db, seed, host, lane, returned, verifier, detected, call >>

\* the collector, or the time limit, stores should_stop = true
AccelStopStored ==
    /\ accel.pc # "done" /\ ~accel.should_stop
    /\ accel' = [accel EXCEPT !.should_stop = TRUE]
    /\ AccelUnchanged

\* metal_gpu.rs:564-566
AccelTop ==
    /\ accel.pc = "top"
    /\ IF accel.should_stop
       THEN accel' = [accel EXCEPT !.pc = "done"]
       ELSE /\ accel.fuel > 0
            /\ accel' = [accel EXCEPT !.pc = "write", !.fuel = @ - 1]
    /\ AccelUnchanged

\* metal_gpu.rs:568-580: four new random words, the offset of this batch,
\* batch_number + 1 (a u32, far from wrapping here)
AccelWrite(random) ==
    /\ accel.pc = "write"
    /\ accel' = [accel EXCEPT
                   !.random_state = random,
                   !.random_writes = @ + 1,
                   !.offset = Mask32(mul64(Word(accel.batch_number), Word(GPU_BATCH_SIZE))),
                   !.batch_number = @ + 1,
                   !.pc = "commit"]
    /\ AccelUnchanged

\* metal_gpu.rs:582-596: encode and commit; the grid starts
AccelCommit ==
    /\ accel.pc = "commit"
    /\ accel' = [accel EXCEPT !.commits = @ + 1, !.in_flight = TRUE, !.pc = "wait"]
    /\ AccelUnchanged

\* metal_gpu.rs:442-494: the lanes of the grid run and write the output
\* buffers; the command buffer is complete
KernelGrid ==
    /\ accel.in_flight
    /\ accel' = [accel EXCEPT
                   !.seeds = [id \in LaneIds |->
                                lane_seed(accel.random_state, accel.offset, id)],
                   !.completed = @ + 1,
                   !.in_flight = FALSE]
    /\ AccelUnchanged

\* a wait that returns while the grid still runs
AccelWaitReturnsEarly(status) ==
    /\ accel.pc = "wait"
    /\ accel' = [accel EXCEPT !.pc = IF status = "Error" THEN "top" ELSE "scan"]
    /\ AccelUnchanged

\* metal_gpu.rs:597-605: wait_until_completed returns once the command
\* buffer is complete; status Error sleeps and continues
AccelWait(status) ==
    /\ accel.pc = "wait"
    /\ ~accel.in_flight
    /\ accel' = [accel EXCEPT !.pc = IF status = "Error" THEN "top" ELSE "scan"]
    /\ AccelUnchanged

\* metal_gpu.rs:608-656: the scan of the output buffers, left by return
\* Ok(()) if should_stop is loaded as true, and the two additions
AccelScan ==
    /\ accel.pc = "scan"
    /\ IF accel.should_stop
       THEN accel' = [accel EXCEPT !.pc = "done"]
       ELSE accel' = [accel EXCEPT !.reads = @ + 1, !.pc = "top"]
    /\ AccelUnchanged

DispatchNext ==
    \/ AccelStopStored
    \/ AccelTop
    \* rng.next_u32() may deliver any four words; these three are followed
    \/ \E random \in
          { << Word(0), Word(0), Word(0), Word(0) >>,
            << U64(0, 0, 4660, 22136), U64(0, 0, 39612, 57072),
               U64(0, 0, 57005, 48879), U64(0, 0, 2989, 61453) >>,
            << U64(0, 0, 65535, 65535), U64(0, 0, 65535, 65535),
               U64(0, 0, 65535, 65535), U64(0, 0, 65535, 65535) >> } :
          AccelWrite(random)
    \/ AccelCommit
    \/ KernelGrid
    \/ \E status \in {"Completed", "Error"} : AccelWait(status)
    \/ AccelScan

DispatchSpec == DispatchInit /\ [][DispatchNext]_vars

\* the word of (n * GPU_BATCH_SIZE) mod 2^32, GPU_BATCH_SIZE being 2^18:
\* bits 18..31 hold n mod 2^14
OffsetOfBatch(n) == << 0, ((n % 16384) % 256) * 32, (n % 16384) \div 256, 0, 0 >>

\* C23: a dispatch is committed only after the random buffer was written
\* anew for it and the offset buffer holds (batch_number * GPU_BATCH_SIZE)
\* mod 2^32 for the batch_number before its increment, one increment per
\* dispatch whether the dispatch before ended in Error or not; while a
\* dispatch is in flight the host is inside wait_until_completed, and
\* every scan of the output buffers happens when the last committed
\* dispatch is complete
C23_WriteCommitWaitRead ==
    /\ [](accel.in_flight => accel.pc = "wait")
    /\ [][accel.commits' # accel.commits
            => /\ accel.random_writes = accel.commits'
               /\ accel.batch_number = accel.commits'
               /\ accel.offset = OffsetOfBatch(accel.commits' - 1)]_vars
    /\ [][accel.reads' # accel.reads
            => ~accel.in_flight /\ accel.completed = accel.commits]_vars

\* C23: the loop has scanned the output of a dispatch that followed a
\* dispatch ended in Error, with an offset that is not 0
C23_Witness ==
    /\ accel.reads = 1
    /\ accel.commits = 16386
    /\ accel.pc = "top"
    /\ accel.offset = OffsetOfBatch(16384 + 1)

\* C25: within one dispatch any two lanes at different positions of the
\* grid, which have different global ids, derive different seeds
C25_DistinctSeeds ==
    \A i, j \in DOMAIN accel.seeds :
        i # j => accel.seeds[i] # accel.seeds[j]

\* C25: the lanes of the dispatch with the largest offset, 0xFFFC0000, and
\* random words that are not all zero have derived their 32-byte seeds
C25_Witness ==
    /\ DOMAIN accel.seeds = LaneIds
    /\ accel.completed = 16384
    /\ ~accel.in_flight
    /\ accel.offset = OffsetOfBatch(16383)
    /\ accel.random_state[1] # Word(0)
    /\ \A id \in LaneIds : Len(accel.seeds[id]) = 32

(***************************************************************************)
(* The shader's field multiplication.                                      *)
(***************************************************************************)
\* the 32 bytes of a reduced field element of the CPU path, lowest first
FieldBytes(f) == [n \in 1..32 |-> Field(f, 13, 8 * (n - 1), 8)]

\* every limb of the shader's field element f lies in [0, 2^51)
LimbsInRange(f) == \A k \in 1..5 : and64(f[k], MASK51) = f[k]

\* C24: for a and b with limbs in [0, 2^51), fe_mul(a, b) in wrapping 64-bit
\* arithmetic represents a * b mod 2^255 - 19.  Seen on the first product
\* a lane computes: ge_base() sets T = fe_mul(X, Y) on the base point's
\* coordinates
C24_FeMulExact ==
    (/\ lane.pc = "ge_scalarmult" /\ lane.i = 0
     /\ LimbsInRange(lane.temp.X) /\ LimbsInRange(lane.temp.Y)
     /\ fe_to_bytes(lane.temp.X) = FieldBytes(ED25519_BASEPOINT.X)
     /\ fe_to_bytes(lane.temp.Y) = FieldBytes(ED25519_BASEPOINT.Y))
        => fe_to_bytes(lane.temp.T)
             = FieldBytes(FieldMul(ED25519_BASEPOINT.X, ED25519_BASEPOINT.Y))

\* C26: for n in {2, 4, 6, 8} the specialised branch of
\* check_vanity_pattern_bytes returns what the general branch returns on the
\* same key and ceil(n/2) bytes
C26_SpecialisedIsGeneral ==
    (/\ call.pc = "returned"
     /\ call.config.mode \in {"Vanity", "Pattern"}
     /\ call.config.vanity_length \in {2, 4, 6, 8})
        => (call.outcome = "true")
             = check_vanity_general(call.public_bytes,
                                    (call.config.vanity_length + 1) \div 2)

\* C26: the two-character branch returned true on a key whose last byte is
\* its first byte with the nibbles swapped and not the first byte itself
C26_Witness ==
    /\ call.pc = "returned"
    /\ call.config.mode = "Pattern"
    /\ call.config.vanity_length = 2
    /\ call.outcome = "true"
    /\ call.public_bytes[1] # call.public_bytes[32]
    /\ check_vanity_general(call.public_bytes, 1)

(***************************************************************************)
(* storage.rs: KeyStorage.  A public key is a sample key; pattern_matched  *)
(* is an Option, << >> for None and << pattern >> for Some(pattern).  The  *)
(* maps are functions, a Vec is a sequence.  An index prefix, the first    *)
(* len characters of the upper-case hex, is written as the len/2 bytes     *)
(* those characters encode.                                                *)
(***************************************************************************)
\* how many entries a store_keys_batch call carries
MaxBatchKeys == 2
\* the sample keys 1..MaxStored are offered to the store
MaxStored == 2

\* index.entry(e).or_insert_with(Vec::new).push(key), for each e of entries
\* in turn
RECURSIVE PushAll(_, _, _)
PushAll(index, entries, key) ==
    IF entries = << >>
    THEN index
    ELSE PushAll(IF Head(entries) \in DOMAIN index
                 THEN [index EXCEPT ![Head(entries)] = Append(@, key)]
                 ELSE index @@ (Head(entries) :> << key >>),
                 Tail(entries), key)

\* storage.rs:181-189: first_8[..len] for len in [2, 4, 6, 8]
first_8_prefixes(key) ==
    [n \in 1..4 |-> Slice(public_bytes(key), 0, n)]

\* storage.rs:146-191: store_key on the locked database
store_key(d, key, pattern_matched) ==
    IF key \in DOMAIN d.keys
    THEN d
    ELSE [d EXCEPT
            !.pattern_index = PushAll(@, pattern_matched, key),
            !.prefix_index = PushAll(@, first_8_prefixes(key), key),
            !.keys = @ @@ (key :> [pattern_matched |-> pattern_matched,
                                   tags |-> << >>, in_use |-> FALSE])]

\* storage.rs:206-252: the loop of store_keys_batch; its body is the body
\* of store_key
RECURSIVE store_keys_batch(_, _)
store_keys_batch(d, keys) ==
    IF keys = << >>
    THEN d
    ELSE store_keys_batch(store_key(d, Head(keys)[1], Head(keys)[2]), Tail(keys))

\* storage.rs:457-484: the loop of optimize over the key map, in the order
\* the HashMap yields its entries
RECURSIVE rebuild(_, _)
rebuild(d, order) ==
    IF order = << >>
    THEN d
    ELSE rebuild([d EXCEPT
                    !.pattern_index =
                        PushAll(@, d.keys[Head(order)].pattern_matched, Head(order)),
                    !.prefix_index =
                        PushAll(@, first_8_prefixes(Head(order)), Head(order)),
                    !.tag_index =
                        PushAll(@, d.keys[Head(order)].tags, Head(order))],
                 Tail(order))

\* storage.rs:417-446: KeyStorage::verify
storage_verify(d) ==
    /\ \A pattern \in DOMAIN d.pattern_index :
          \A i \in DOMAIN d.pattern_index[pattern] :
              d.pattern_index[pattern][i] \in DOMAIN d.keys
    /\ \A prefix \in DOMAIN d.prefix_index :
          \A i \in DOMAIN d.prefix_index[prefix] :
              d.prefix_index[prefix][i] \in DOMAIN d.keys
    /\ \A tag \in DOMAIN d.tag_index :
          \A i \in DOMAIN d.tag_index[tag] :
              d.tag_index[tag][i] \in DOMAIN d.keys

\* storage.rs:100-104, 80-97: new_in_memory on a path where no file is;
\* StorageDatabase::default (58-67)
StorageInit ==
    /\ WorkerPoolNew
    /\ known_keys = {}
    /\ num_workers = 0
    /\ pattern_config.mode = "Pattern"
    /\ target_keys = 1
    /\ seed = << >>
    /\ host = HostIdle
    /\ lane = LaneIdle
    /\ returned = << >>
    /\ verifier = VerifierIdle
    /\ accel = << >>
    /\ detected = << >>
    /\ call = CallNone
    /\ db = [mem |-> [keys |-> << >>, pattern_index |-> << >>,
                      tag_index |-> << >>, prefix_index |-> << >>],
             saved |-> FALSE]

\* storage.rs:107-113: every operation ends with save(), which writes the
\* database to the file or fails and leaves the file as it was
Saved(mem, save_ok) ==
    /\ db' = [mem |-> mem, saved |-> save_ok \/ (db.saved /\ mem = db.mem)]
    /\ UNCHANGED << search_vars, seed, host, lane, returned, verifier,
                    accel, detected, call >>

\* storage.rs:140-196
StoreKey(key, pattern_matched, save_ok) ==
    Saved(store_key(db.mem, key, pattern_matched), save_ok)

\* storage.rs:199-257
StoreKeysBatch(keys, save_ok) ==
    Saved(store_keys_batch(db.mem, keys), save_ok)

\* a remove_tag that leaves tag_index as it is
RemoveTagKeepsIndex(key_id, tag, save_ok) ==
    Saved(IF key_id \in DOMAIN db.mem.keys
          THEN [db.mem EXCEPT
                  !.keys[key_id].tags = SelectSeq(@, LAMBDA t : t # tag)]
          ELSE db.mem,
          save_ok)

\* storage.rs:295-313
AddTag(key_id, tag, save_ok) ==
    Saved(IF /\ key_id \in DOMAIN db.mem.keys
             /\ \A i \in DOMAIN db.mem.keys[key_id].tags :
                   db.mem.keys[key_id].tags[i] # tag
          THEN [db.mem EXCEPT
                  !.keys[key_id].tags = Append(@, tag),
                  !.tag_index = PushAll(@, << tag >>, key_id)]
          ELSE db.mem,
          save_ok)

\* storage.rs:316-331
RemoveTag(key_id, tag, save_ok) ==
    Saved(IF key_id \in DOMAIN db.mem.keys
          THEN [db.mem EXCEPT
                  !.keys[key_id].tags = SelectSeq(@, LAMBDA t : t # tag),
                  !.tag_index =
                      IF tag \in DOMAIN @
                      THEN [@ EXCEPT ![tag] = SelectSeq(@, LAMBDA k : k # key_id)]
                      ELSE @]
          ELSE db.mem,
          save_ok)

\* storage.rs:345-355
SetInUse(key_id, in_use, save_ok) ==
    Saved(IF key_id \in DOMAIN db.mem.keys
          THEN [db.mem EXCEPT !.keys[key_id].in_use = in_use]
          ELSE db.mem,
          save_ok)

\* storage.rs:449-489
Optimize(order, save_ok) ==
    /\ Len(order) = Cardinality(DOMAIN db.mem.keys)
    /\ { order[i] : i \in DOMAIN order } = DOMAIN db.mem.keys
    /\ Saved(rebuild([db.mem EXCEPT !.pattern_index = << >>,
                                    !.prefix_index = << >>,
                                    !.tag_index = << >>],
                     order),
             save_ok)

StorageNext ==
    \E save_ok \in BOOLEAN :
        \/ \E key \in 1..MaxStored, pattern_matched \in {<< >>, << "test_pattern" >>} :
              StoreKey(key, pattern_matched, save_ok)
        \/ \E n \in 0..MaxBatchKeys :
              \E keys \in [1..n -> (1..MaxStored) \X {<< >>, << "test_pattern" >>}] :
                  StoreKeysBatch(keys, save_ok)
        \/ \E key_id \in 1..MaxStored, tag \in {"production", "important"} :
              \/ AddTag(key_id, tag, save_ok)
              \/ RemoveTag(key_id, tag, save_ok)
        \/ \E key_id \in 1..MaxStored, in_use \in BOOLEAN : SetInUse(key_id, in_use, save_ok)
        \/ \E n \in 0..MaxStored :
              \E order \in [1..n -> 1..MaxStored] : Optimize(order, save_ok)

StorageSpec == StorageInit /\ [][StorageNext]_vars

\* C27: after any sequence of store_key, store_keys_batch, add_tag,
\* remove_tag, set_in_use and optimize on an empty store, verify() returns
\* true, and a key is listed under a tag in tag_index exactly when the tag
\* is among the key's tags
C27_IndexIntegrity ==
    db # << >> =>
        /\ storage_verify(db.mem)
        /\ \A key \in 1..MaxStored, tag \in {"production", "important"} :
              (/\ tag \in DOMAIN db.mem.tag_index
               /\ \E i \in DOMAIN db.mem.tag_index[tag] :
                     db.mem.tag_index[tag][i] = key)
                 <=> (/\ key \in DOMAIN db.mem.keys
                      /\ \E i \in DOMAIN db.mem.keys[key].tags :
                            db.mem.keys[key].tags[i] = tag)

\* C27: two keys are stored; one lost the only tag it had, which left an
\* empty entry in tag_index, the other carries a tag and is in use, and
\* both are listed under the prefix they share
C27_Witness ==
    /\ db # << >>
    /\ DOMAIN db.mem.keys = {1, 2}
    /\ "important" \in DOMAIN db.mem.tag_index
    /\ db.mem.tag_index["important"] = << >>
    /\ db.mem.keys[1].tags = << >>
    /\ db.mem.keys[2].tags = << "production" >>
    /\ db.mem.keys[2].in_use
    /\ db.mem.tag_index["production"] = << 2 >>
    /\ db.mem.prefix_index[<< 171 >>] = << 2, 1 >>

\* C28: the collector never accepts a duplicate: a step that accepts a key
\* accepts the received key, which is not in known_keys, and known_keys
\* holds the loaded keys and every key accepted so far; so the accepted
\* keys are pairwise distinct and their indexes are 1, 2, 3, ... in
\* acceptance order
C28_NoDuplicate ==
    /\ [](/\ \A i \in DOMAIN found_keys :
                /\ found_keys[i].index = i
                /\ found_keys[i].key \in known_keys
          /\ \A i, j \in DOMAIN found_keys :
                found_keys[i].key = found_keys[j].key => i = j)
    /\ [][/\ known_keys \subseteq known_keys'
          /\ found_keys' # found_keys
               => /\ channel # << >>
                  /\ Head(channel) \notin known_keys
                  /\ Len(found_keys') = Len(found_keys) + 1
                  /\ SubSeq(found_keys', 1, Len(found_keys)) = found_keys
                  /\ found_keys'[Len(found_keys')].key = Head(channel)]_vars

\* C28: key 1 was loaded from the output directory, key 2 was accepted
\* with index 1, and the collector is about to receive key 1
C28_Witness ==
    /\ known_keys = {1, 2}
    /\ Len(found_keys) = 1
    /\ found_keys[1].key = 2
    /\ found_keys[1].index = 1
    /\ client_pc = "drain"
    /\ channel # << >>
    /\ Head(channel) = 1

\* C29: for every key and configuration, matches_pattern on the key's hex
\* string returns what matches_pattern_bytes returns on its bytes
C29_MatchersAgree ==
    (call.pc = "returned" /\ call.hex_outcome # "none")
        => call.hex_outcome = call.outcome

(***************************************************************************)
(* The matchers on every PatternConfig the struct can hold                 *)
(* (pattern.rs:27-31): vanity_length is a u8, prefix an Option, and the    *)
(* fields are public.                                                      *)
(***************************************************************************)
\* a call on a sample key with any mode, vanity_length 0, 1, the lengths
\* around 32 and 64, and 255, and a prefix or None whatever the mode
TotalInit ==
    /\ WorkerPoolNew
    /\ known_keys = {}
    /\ num_workers = 0
    /\ pattern_config.mode = "Pattern"
    /\ target_keys = 1
    /\ seed = << >>
    /\ host = HostIdle
    /\ lane = LaneIdle
    /\ returned = << >>
    /\ verifier = VerifierIdle
    /\ db = << >>
    /\ accel = << >>
    /\ detected = << >>
    /\ \E k \in Keys,
          mode \in {"Any", "Prefix", "Vanity", "Pattern", "PrefixVanity"},
          has_prefix \in BOOLEAN,
          vanity_length \in {0, 1, 2, 8, 9, 31, 32, 33, 63, 64, 65, 66, 254, 255} :
          call = [CallNone EXCEPT
                    !.pc = "called",
                    !.public_bytes = public_bytes(k),
                    !.config = PatternConfig(mode, has_prefix,
                                             IF has_prefix THEN <<65, 66>> ELSE << >>,
                                             vanity_length)]

TotalSpec == TotalInit /\ [][MatchNext]_vars

\* C30: matches_pattern_bytes is total: for every key and every
\* PatternConfig, vanity_length 0 and above 64 and a missing prefix
\* included, the call returns true or false, and false when vanity_length is
\* above 64
C30_Total ==
    call.pc = "returned"
        => /\ call.outcome \in {"true", "false"}
           /\ call.config.vanity_length > 64
                /\ call.config.mode \in {"Vanity", "Pattern", "PrefixVanity"}
                => call.outcome = "false"

=============================================================================
